---- MODULE Spec2Model ----
(***************************************************************************)
(* The audit ledger of arka-plugins/plugin-audit-log: AuditLogServiceImpl  *)
(* (service.ts), InMemoryAuditStorage (storage/memory.ts) and              *)
(* PostgresAuditStorage (storage/postgres.ts).                             *)
(*                                                                         *)
(* JavaScript runs every piece of code between two awaits to completion,   *)
(* so one action of this model is one such synchronous run: the code from  *)
(* the entry of a handler (or from the resumption after an await) to the   *)
(* next await that really suspends.  Two kinds of suspension exist:        *)
(*  - the in-memory backend only awaits already-resolved promises, so its  *)
(*    continuations are microtasks: a timer callback (a macrotask) cannot  *)
(*    run while a call is suspended there;                                 *)
(*  - the relational backend awaits network I/O: other callers, the timer  *)
(*    callback and the completions of other statements may run in between, *)
(*    in any order.                                                        *)
(***************************************************************************)
EXTENDS Integers, Sequences, FiniteSets, TLC

\* ---------------------------------------------------------------- bounds
\* Number of recordEvent calls of a run.
MaxRecords == 3
\* config.batchInsertSize of the in-memory deployment (the default is 100).
MemBatchSize == 3
\* config.batchInsertSize of the relational deployment.
PgBatchSize == 2
\* Number of transient failures the relational backend may produce in a run.
MaxFaults == 2

\* ------------------------------------------------------- program constants
\* `limit: 10000` of verifyIntegrity's full-range query, scaled down to 2 so
\* that a run of MaxRecords calls can hold more records than the limit.
VERIFY_LIMIT == 2
\* Flush timers running plus init() calls in flight at one time.
MaxTimers == 2
\* Calls of recordEvent in a run of a service that flushes every record at
\* once (batchInsertSize 1): one more than the default limit of a query.
MaxTrail == 101
\* Significand bits of a JS Number (53 in IEEE 754 binary64), scaled down,
\* and the largest amount a caller passes.
FLOAT_BITS == 5
MaxAmount == 100
\* `limit: 10000` of the breakdown query of getStats, scaled down.
STATS_LIMIT == 2
\* storeEvidence calls in one run, and the longest content submitted (bytes).
MaxEvidence == 2
MaxContentLen == 2
\* Retention sweeps in one run.
MaxSweeps == 2
\* The retentionDays values configured.
MaxRetentionDays == 2
\* `const pageSize = 100` of exportEvents, scaled down to 2 so that a run of
\* MaxRecords calls fills more than one page.
PAGE_SIZE == 2
\* `query.limit || 100` of both backends.
DEFAULT_LIMIT == 100
\* maxEvidenceSize of DEFAULT_CONFIG: 10 * 1024 * 1024.
MAX_EVIDENCE_DEFAULT == 10485760

\* ----------------------------------------------------------- JS values
Undefined == "undefined"
Null == "null"
\* lastHash / previousHash null; a digest is a non-empty tuple.
NullHash == <<>>

CorrAxes ==
  {"transactionId", "entityId", "ruleId", "alertId", "requestId",
   "sessionId", "externalId"}

\* record.actor absent (the key is undefined).
NoActor ==
  [kind |-> Undefined, type |-> Undefined, id |-> Undefined,
   name |-> Undefined, ipAddress |-> Undefined]

\* record.actor null (what rowToRecord builds for a row without actor_id).
NullActor ==
  [kind |-> Null, type |-> Undefined, id |-> Undefined,
   name |-> Undefined, ipAddress |-> Undefined]

UserActor ==
  [kind |-> "object", type |-> "user", id |-> "u1",
   name |-> Undefined, ipAddress |-> Undefined]

\* correlationIds objects: a key that is not given is undefined.
CorrOf(tx, ent) ==
  [a \in CorrAxes |->
     IF a = "transactionId" THEN tx
     ELSE IF a = "entityId" THEN ent ELSE Undefined]

\* The event inputs callers submit (AuditRecordInput).  data is an object,
\* modelled by its keys in insertion order (a key is a number: its rank in the
\* order jsonb stores keys in).
Inputs ==
  { [eventType |-> "transaction_created", actor |-> NoActor,
     correlationIds |-> CorrOf("t1", Undefined), category |-> "transaction",
     severity |-> "info", description |-> "created", data |-> <<1>>,
     evidence |-> Undefined],
    [eventType |-> "alert_created", actor |-> UserActor,
     correlationIds |-> CorrOf("t1", "e1"), category |-> "compliance",
     severity |-> "critical", description |-> "alert", data |-> <<2, 1>>,
     evidence |-> Undefined] }

\* An input every field of which comes back from a row as it went in: an
\* actor with all its fields, every correlation id given, data of one key.
RoundTripInput ==
  [eventType |-> "transaction_created",
   actor |-> [kind |-> "object", type |-> "user", id |-> "u1",
              name |-> "n1", ipAddress |-> "ip1"],
   correlationIds |-> [a \in CorrAxes |-> "c1"], category |-> "transaction",
   severity |-> "info", description |-> "created", data |-> <<1>>,
   evidence |-> Undefined]

\* The AuditQuery objects callers submit.  A set that is empty, a string that
\* is undefined and a number that is 0 are the falsy values the backends test.
NoFilter ==
  [eventTypes |-> {}, categories |-> {}, severities |-> {},
   actorId |-> Undefined, correlationIds |-> CorrOf(Undefined, Undefined),
   fromTimestamp |-> 0, toTimestamp |-> 0, orderBy |-> Undefined,
   limit |-> 0, offset |-> 0]

Filters ==
  { [NoFilter EXCEPT !.orderBy = "timestamp_asc"],
    [NoFilter EXCEPT !.severities = {"critical"}] }

\* Filters on one correlation axis each (the value "e1" is the entityId of
\* one of the Inputs, no input carries the other ids), on a time range, and
\* a page of an ascending listing.
QueryFilters ==
  { [NoFilter EXCEPT !.correlationIds =
       [CorrOf(Undefined, Undefined) EXCEPT ![a] = "e1"]] : a \in CorrAxes }
  \cup { [NoFilter EXCEPT !.fromTimestamp = 2, !.toTimestamp = 3],
         [NoFilter EXCEPT !.orderBy = "timestamp_asc", !.limit = 1,
                          !.offset = 1] }

\* The query getByTransactionId / getByEntityId build: one correlation id,
\* ascending, no limit.
TrailQuery(axis, value) ==
  [NoFilter EXCEPT !.correlationIds =
                     [CorrOf(Undefined, Undefined) EXCEPT ![axis] = value],
                   !.orderBy = "timestamp_asc"]

\* The query of verifyIntegrity's full-range branch.
VerifyQuery ==
  [NoFilter EXCEPT !.orderBy = "timestamp_asc", !.limit = VERIFY_LIMIT]

VARIABLES
  storageType,    \* config.storageType: "memory" | "postgres"
  batchInsertSize,\* config.batchInsertSize
  enableHashChaining, \* config.enableHashChaining
  retentionDays,  \* config.retentionDays
  maxEvidenceSize,\* config.maxEvidenceSize
  enableEvidenceStorage, \* config.enableEvidenceStorage
  pgClient,       \* PostgresAuditStorage.client is set (not null)
  lastHash,       \* AuditLogServiceImpl.lastHash
  batchQueue,     \* AuditLogServiceImpl.batchQueue
  flushTimer,     \* AuditLogServiceImpl.flushTimer is set
  initialized,    \* AuditLogServiceImpl.initialized
  mem,            \* InMemoryAuditStorage: [records (Map order), orderedIds]
  table,          \* pact_audit_records, rows in insertion (created_at) order
  flights,        \* flushBatch calls suspended inside storage.insertBatch
  reader,         \* the queryEvents / verifyIntegrity / getRecord / shutdown
                  \* call in progress
  clock,          \* Date.now()
  faults,         \* transient backend failures still to come
  created,        \* history: the records in the order recordEvent made them
  returned,       \* history: ids of the records recordEvent has returned
  rejected,       \* history: ids whose recordEvent call threw
  tampered,       \* history: id of the persisted record changed from outside
  restartAt,      \* history: number of records created when the process
                  \* was last restarted (0: never)
  retentionTimer, \* AuditLogPlugin.retentionTimer is set
  sweeps,         \* history: number of runRetentionCleanup runs
  exporter,       \* the exportEvents generator being consumed
  evidence,       \* InMemoryEvidenceStorage.evidence: entries in Map order
  answered,       \* history: what the last queryEvents call returned
  evidenceLog,    \* history: the storeEvidence calls and their outcomes
  amlCall,        \* the call of a function of the arka-aml plugin: its name
                  \* and arguments
  amlResult,      \* what that call returned: <<value>> (<<>> before it has)
  timers,         \* the number of setInterval flush timers that are running
  initCalls       \* init() calls suspended at an await, in call order

\* The configuration: nothing writes it after the constructor.
config ==
  <<storageType, batchInsertSize, enableHashChaining, retentionDays,
    maxEvidenceSize, enableEvidenceStorage>>

\* The call made to the arka-aml plugin, which shares nothing with the ledger.
aml == <<amlCall, amlResult>>

\* The plugin's retention timer, the export in progress, the evidence store.
\* The flush timers that run and the init() calls that have not ended.
life == <<timers, initCalls>>

others ==
  <<retentionTimer, sweeps, exporter, evidence, answered, evidenceLog, aml,
    life>>

vars ==
  <<config, pgClient, lastHash, batchQueue, flushTimer, initialized, mem,
    table, flights, reader, clock, faults, created, returned, rejected,
    tampered, restartAt, others>>

\* ------------------------------------------------------------- helpers
Min(a, b) == IF a < b THEN a ELSE b

Ids(s) == {s[i].id : i \in 1..Len(s)}

\* The ids of a sequence of records, in its order.
IdSeq(s) == [i \in 1..Len(s) |-> s[i].id]

\* Array.prototype.slice(offset, offset + limit).
Slice(s, offset, limit) == SubSeq(s, offset + 1, Min(Len(s), offset + limit))

\* ------------------------------------------------------------- Numbers
\* A JS Number that is not 0 is m * 2^e with m an integer below
\* 2^FLOAT_BITS; here m is odd (the one form of each value), and 0 is m = 0.
RECURSIVE Pow2(_)
Pow2(n) == IF n = 0 THEN 1 ELSE 2 * Pow2(n - 1)

RECURSIVE Norm(_, _)
Norm(m, e) ==
  IF m = 0 THEN [m |-> 0, e |-> 0]
  ELSE IF m % 2 = 0 THEN Norm(m \div 2, e + 1) ELSE [m |-> m, e |-> e]

\* The exponents of the quotients and products the model meets.
Exponents == (0 - (FLOAT_BITS + 8))..8

\* The Number nearest to the positive rational num / den, ties to the even
\* significand (the rounding of every arithmetic operation on Numbers).
RoundQ(num, den) ==
  LET e == CHOOSE x \in Exponents :
             IF x >= 0
             THEN /\ Pow2(FLOAT_BITS - 1) * den * Pow2(x) <= num
                  /\ num < Pow2(FLOAT_BITS) * den * Pow2(x)
             ELSE /\ Pow2(FLOAT_BITS - 1) * den <= num * Pow2(0 - x)
                  /\ num * Pow2(0 - x) < Pow2(FLOAT_BITS) * den
      n == IF e >= 0 THEN num ELSE num * Pow2(0 - e)
      d == IF e >= 0 THEN den * Pow2(e) ELSE den
      q == n \div d
      r == n % d
      up == 2 * r > d \/ (2 * r = d /\ q % 2 = 1)
  IN Norm(IF up THEN q + 1 ELSE q, e)

\* An integer that is a Number as it stands.
Num(n) == Norm(n, 0)

IsNumber(n) == RoundQ(n, 1) = Num(n)

\* x > n for a Number x and an integer n.
Greater(x, n) ==
  IF x.e >= 0 THEN x.m * Pow2(x.e) > n ELSE x.m > n * Pow2(0 - x.e)

\* amount / typicalAmount and (amount - typicalAmount) / stdDev of integers.
Divide(a, b) == IF a = 0 THEN Num(0) ELSE RoundQ(a, b)

\* x * n for a Number x and a positive integer n.
Times(x, n) ==
  IF x.m = 0 THEN Num(0)
  ELSE IF x.e >= 0 THEN RoundQ(x.m * Pow2(x.e) * n, 1)
       ELSE RoundQ(x.m * n, Pow2(0 - x.e))

\* Math.abs of a difference of integers.
Abs(n) == IF n < 0 THEN 0 - n ELSE n

\* ------------------------------------------------------------ arka-aml
\* Faulty variant of calculateAnomalyScore (C34): a ratio of exactly 2
\* already scores 40.
calculateAnomalyScoreInclusive(amount, typicalAmount, stdDev) ==
  IF stdDev = 0
  THEN LET ratio == Divide(amount, typicalAmount)
       IN IF Greater(ratio, 10) THEN Num(100)
          ELSE IF Greater(ratio, 5) THEN Num(80)
          ELSE IF Greater(ratio, 3) THEN Num(60)
          ELSE IF ratio = Num(2) \/ Greater(ratio, 2) THEN Num(40)
          ELSE Num(0)
  ELSE LET zScore == Divide(Abs(amount - typicalAmount), stdDev)
           scaled == Times(zScore, 20)
       IN IF Greater(scaled, 100) THEN Num(100) ELSE scaled

\* calculateAnomalyScore(amount, typicalAmount, stdDev = 0).
calculateAnomalyScore(amount, typicalAmount, stdDev) ==
  IF stdDev = 0
  THEN LET ratio == Divide(amount, typicalAmount)
       IN IF Greater(ratio, 10) THEN Num(100)
          ELSE IF Greater(ratio, 5) THEN Num(80)
          ELSE IF Greater(ratio, 3) THEN Num(60)
          ELSE IF Greater(ratio, 2) THEN Num(40)
          ELSE Num(0)
  ELSE LET zScore == Divide(Abs(amount - typicalAmount), stdDev)
           scaled == Times(zScore, 20)
       IN IF Greater(scaled, 100) THEN Num(100) ELSE scaled

\* HIGH_RISK_COUNTRIES[countryCode] ?? 'LOW' (the entries the model's
\* countries meet; every other code, undefined included, has no entry).
getCountryRisk(countryCode) ==
  IF countryCode \in {"KP", "IR"} THEN "SANCTIONED"
  ELSE IF countryCode \in {"MM", "SY", "YE"} THEN "VERY_HIGH"
  ELSE IF countryCode \in {"AF", "PK", "NG", "HT", "JM", "PH", "ZW"}
       THEN "HIGH"
  ELSE IF countryCode \in {"KY", "VG", "PA", "BZ"} THEN "MEDIUM"
  ELSE "LOW"

\* `!value` for an object-valued key (kind tells undefined, null and object
\* apart) and for a string-valued one.
NoObject(v) == v.kind \in {Undefined, Null}

NoString(v) == v \in {Undefined, Null, ""}

\* Faulty variant of TransactionErrors (C35): the destination country is
\* not looked at.
TransactionErrorsNoDest(transaction) ==
  IF NoObject(transaction) THEN <<"MISSING_TRANSACTION">>
  ELSE (IF transaction.amount < 0 THEN <<"INVALID_AMOUNT">> ELSE <<>>)
       \o (IF NoString(transaction.sourceCountry)
           THEN <<"MISSING_SOURCE_COUNTRY">> ELSE <<>>)

\* The errors validateDomainData pushes for payload.transaction.
TransactionErrors(transaction) ==
  IF NoObject(transaction) THEN <<"MISSING_TRANSACTION">>
  ELSE (IF transaction.amount < 0 THEN <<"INVALID_AMOUNT">> ELSE <<>>)
       \o (IF NoString(transaction.sourceCountry)
           THEN <<"MISSING_SOURCE_COUNTRY">> ELSE <<>>)
       \o (IF NoString(transaction.destCountry)
           THEN <<"MISSING_DEST_COUNTRY">> ELSE <<>>)

\* The fields validateDomainData pushes warnings for.
DomainWarnings(data) ==
  (IF ~NoObject(data.transaction)
      /\ getCountryRisk(data.transaction.destCountry) \in {"HIGH", "VERY_HIGH"}
   THEN <<"transaction.destCountry">> ELSE <<>>)
  \o (IF ~NoObject(data.customer) /\ data.customer.isPEP
      THEN <<"customer.isPEP">> ELSE <<>>)
  \o (IF ~NoObject(data.customer) /\ data.customer.sanctionsHits > 0
      THEN <<"customer.sanctionsHits">> ELSE <<>>)

\* ArkaAMLPlugin.validateDomainData(entityType, data): the ValidationResult,
\* errors by their codes and warnings by their fields, in push order.
validateDomainData(entityType, data) ==
  LET errors ==
        IF entityType = "Transaction"
        THEN TransactionErrors(data.transaction)
             \o (IF NoObject(data.account) THEN <<"MISSING_ACCOUNT">> ELSE <<>>)
             \o (IF NoObject(data.customer)
                 THEN <<"MISSING_CUSTOMER">> ELSE <<>>)
        ELSE <<"UNKNOWN_ENTITY_TYPE">>
      warnings ==
        IF entityType = "Transaction" THEN DomainWarnings(data) ELSE <<>>
  IN [valid |-> (Len(errors) = 0), errors |-> errors, warnings |-> warnings]

\* ------------------------------------------------------------- hashing
\* Faulty variant of HashContent (C4): the digest does not cover data.
HashContentWithoutData(id, timestamp, f, previousHash) ==
  <<id, timestamp, f.eventType, f.actor, f.correlationIds, f.category,
    f.severity, f.description, previousHash>>

\* The object recordEvent and verifyIntegrity hand to JSON.stringify, as the
\* tuple of its values in key order; f carries the fields taken from the input
\* (recordEvent) or from the stored record (verifyIntegrity).  JSON.stringify
\* leaves out a key whose value is undefined and writes null for one that is
\* null, so the two are different values here.
HashContent(id, timestamp, f, previousHash) ==
  <<id, timestamp, f.eventType, f.actor, f.correlationIds, f.category,
    f.severity, f.description, f.data, previousHash>>

\* createHash(algorithm).update(content).digest('hex'): a collision-free
\* digest, modelled by the content it was computed from.
computeHash(content) == <<"sha256", content>>

\* ------------------------------------------------- InMemoryAuditStorage
\* The store of a new InMemoryAuditStorage, and the one close() leaves.
EmptyMem == [records |-> <<>>, orderedIds |-> <<>>]

\* insert: Map.set keeps the position of a key that is already there and
\* appends a new one; orderedIds.push always appends.
MemInsert(m, r) ==
  [records |->
     IF r.id \in Ids(m.records)
     THEN [i \in 1..Len(m.records) |->
             IF m.records[i].id = r.id THEN r ELSE m.records[i]]
     ELSE Append(m.records, r),
   orderedIds |-> Append(m.orderedIds, r.id)]

\* insertBatch run to its end without another task in between.
RECURSIVE MemInsertAll(_, _)
MemInsertAll(m, rs) ==
  IF rs = <<>> THEN m ELSE MemInsertAll(MemInsert(m, Head(rs)), Tail(rs))

\* The filters of InMemoryAuditStorage.query.
MemMatches(r, q) ==
  /\ q.eventTypes # {} => r.eventType \in q.eventTypes
  /\ q.categories # {} => r.category \in q.categories
  /\ q.severities # {} => r.severity \in q.severities
  /\ q.actorId # Undefined => r.actor.id = q.actorId
  /\ \A a \in {"transactionId", "entityId", "ruleId", "alertId", "requestId"} :
       q.correlationIds[a] # Undefined =>
         r.correlationIds[a] = q.correlationIds[a]
  /\ q.fromTimestamp # 0 => r.timestamp >= q.fromTimestamp
  /\ q.toTimestamp # 0 => r.timestamp < q.toTimestamp

MemFiltered(s, q) == SelectSeq(s, LAMBDA r : MemMatches(r, q))

\* Faulty variant of InOrder (C1): a sort that is not stable, records of one
\* timestamp change places.
InOrderUnstable(a, b, orderBy) ==
  IF orderBy = "timestamp_asc"
  THEN a.timestamp < b.timestamp
  ELSE a.timestamp > b.timestamp

\* The comparator of results.sort: a stays in front of a later b.
InOrder(a, b, orderBy) ==
  IF orderBy = "timestamp_asc"
  THEN a.timestamp <= b.timestamp
  ELSE a.timestamp >= b.timestamp

RECURSIVE SortInsert(_, _, _)
SortInsert(s, r, orderBy) ==
  IF s = <<>> THEN <<r>>
  ELSE IF InOrder(Head(s), r, orderBy)
       THEN <<Head(s)>> \o SortInsert(Tail(s), r, orderBy)
       ELSE <<r>> \o s

\* Array.prototype.sort is stable: records the comparator calls equal keep
\* their order (and an array that is in order stays as it is).
RECURSIVE StableSort(_, _)
StableSort(s, orderBy) ==
  IF \A i \in 1..(Len(s) - 1) : InOrder(s[i], s[i + 1], orderBy) THEN s
  ELSE SortInsert(StableSort(SubSeq(s, 1, Len(s) - 1), orderBy),
                  s[Len(s)], orderBy)

QueryLimit(q) == IF q.limit # 0 THEN q.limit ELSE DEFAULT_LIMIT

MemQuery(m, q) ==
  Slice(StableSort(MemFiltered(m.records, q), q.orderBy), q.offset,
        QueryLimit(q))

MemGet(m, id) ==
  IF id \in Ids(m.records)
  THEN {m.records[i] : i \in {j \in 1..Len(m.records) : m.records[j].id = id}}
  ELSE {}

\* count() without a query: this.records.size.
MemCount(m) == Len(m.records)

\* getLastRecord: the record of the last id of orderedIds, or nothing (null).
MemGetLast(m) ==
  IF m.orderedIds = <<>> THEN {}
  ELSE MemGet(m, m.orderedIds[Len(m.orderedIds)])

\* Array.prototype.indexOf counted from 1 (0: not found, the -1 of JS).
IndexOf(ids, id) ==
  IF \E i \in 1..Len(ids) : ids[i] = id
  THEN CHOOSE i \in 1..Len(ids) :
         ids[i] = id /\ \A j \in 1..(i - 1) : ids[j] # id
  ELSE 0

RECURSIVE MemRecordsOf(_, _)
MemRecordsOf(m, ids) ==
  IF ids = <<>> THEN <<>>
  ELSE (IF MemGet(m, Head(ids)) = {} THEN <<>>
        ELSE <<CHOOSE r \in MemGet(m, Head(ids)) : TRUE>>)
       \o MemRecordsOf(m, Tail(ids))

\* Faulty variant of MemGetRange (C38): a range given backwards is read from
\* its later id to its earlier one.
MemGetRangeEitherWay(m, fromId, toId) ==
  LET fromIndex == IndexOf(m.orderedIds, fromId)
      toIndex == IndexOf(m.orderedIds, toId)
  IN IF fromIndex = 0 \/ toIndex = 0 THEN <<>>
     ELSE MemRecordsOf(m, SubSeq(m.orderedIds, Min(fromIndex, toIndex),
                                 IF fromIndex < toIndex THEN toIndex
                                 ELSE fromIndex))

\* getRange(fromId, toId): the records of orderedIds.slice(fromIndex,
\* toIndex + 1); nothing when one of the ids is not in orderedIds.
MemGetRange(m, fromId, toId) ==
  LET fromIndex == IndexOf(m.orderedIds, fromId)
      toIndex == IndexOf(m.orderedIds, toId)
  IN IF fromIndex = 0 \/ toIndex = 0 THEN <<>>
     ELSE MemRecordsOf(m, SubSeq(m.orderedIds, fromIndex, toIndex))

\* orderedIds.indexOf(id) / splice(index, 1): the first occurrence goes.
RECURSIVE RemoveFirst(_, _)
RemoveFirst(ids, id) ==
  IF ids = <<>> THEN <<>>
  ELSE IF Head(ids) = id THEN Tail(ids)
       ELSE <<Head(ids)>> \o RemoveFirst(Tail(ids), id)

RECURSIVE RemoveAll(_, _)
RemoveAll(ids, toDelete) ==
  IF toDelete = <<>> THEN ids
  ELSE RemoveAll(RemoveFirst(ids, Head(toDelete)), Tail(toDelete))

\* deleteOlderThan(timestamp): every record with an earlier timestamp leaves
\* the Map and loses one entry of orderedIds.
MemDeleteOlderThan(m, timestamp) ==
  LET toDelete == SelectSeq(m.records, LAMBDA r : r.timestamp < timestamp)
  IN [records |-> SelectSeq(m.records, LAMBDA r : ~(r.timestamp < timestamp)),
      orderedIds |->
        RemoveAll(m.orderedIds, [i \in 1..Len(toDelete) |-> toDelete[i].id])]

\* ------------------------------------------------- PostgresAuditStorage
\* `value || null` of insert's column list.
OrNull(v) == IF v = Undefined THEN Null ELSE v

RECURSIVE SortedKeys(_)
SortedKeys(d) ==
  IF d = <<>> THEN <<>>
  ELSE LET m == CHOOSE i \in 1..Len(d) : \A j \in 1..Len(d) : d[i] <= d[j]
       IN <<d[m]>> \o SortedKeys(SubSeq(d, 1, m - 1) \o SubSeq(d, m + 1, Len(d)))

\* The row insert writes: the columns of pact_audit_records.  The data column
\* is jsonb, which does not keep the order of an object's keys.
RowOf(r) ==
  [id |-> r.id, event_type |-> r.eventType, timestamp |-> r.timestamp,
   actor_type |-> OrNull(r.actor.type), actor_id |-> OrNull(r.actor.id),
   actor_name |-> OrNull(r.actor.name), actor_ip |-> OrNull(r.actor.ipAddress),
   correlation |-> [a \in CorrAxes |-> OrNull(r.correlationIds[a])],
   category |-> r.category, severity |-> r.severity,
   description |-> r.description, data |-> SortedKeys(r.data),
   evidence |-> OrNull(r.evidence), previous_hash |-> r.previousHash,
   record_hash |-> r.recordHash]

rowToRecord(row) ==
  [id |-> row.id, timestamp |-> row.timestamp, eventType |-> row.event_type,
   actor |->
     IF row.actor_id # Null
     THEN [kind |-> "object", type |-> row.actor_type, id |-> row.actor_id,
           name |-> row.actor_name, ipAddress |-> row.actor_ip]
     ELSE NullActor,
   correlationIds |-> row.correlation,
   category |-> row.category, severity |-> row.severity,
   description |-> row.description, data |-> row.data,
   evidence |-> row.evidence, previousHash |-> row.previous_hash,
   recordHash |-> row.record_hash]

\* The WHERE clause PostgresAuditStorage.query builds.
PgMatches(row, q) ==
  /\ q.eventTypes # {} => row.event_type \in q.eventTypes
  /\ q.categories # {} => row.category \in q.categories
  /\ q.severities # {} => row.severity \in q.severities
  /\ q.actorId # Undefined => row.actor_id = q.actorId
  /\ \A a \in {"transactionId", "entityId", "ruleId"} :
       q.correlationIds[a] # Undefined =>
         row.correlation[a] = q.correlationIds[a]
  /\ q.fromTimestamp # 0 => row.timestamp >= q.fromTimestamp
  /\ q.toTimestamp # 0 => row.timestamp < q.toTimestamp

RECURSIVE PgFiltered(_, _)
PgFiltered(s, q) ==
  IF s = <<>> THEN <<>>
  ELSE (IF PgMatches(Head(s), q) THEN <<Head(s)>> ELSE <<>>)
       \o PgFiltered(Tail(s), q)

\* ORDER BY timestamp ASC|DESC: SQL fixes no order among rows of equal
\* timestamp, so every order of the matching rows that respects the
\* timestamps is a possible answer.
PgOrders(rows, orderBy) ==
  LET n == Len(rows)
  IN { [i \in 1..n |-> rows[p[i]]] :
         p \in { f \in [1..n -> 1..n] :
                   /\ \A i, j \in 1..n : i # j => f[i] # f[j]
                   /\ \A i, j \in 1..n :
                        i < j =>
                          IF orderBy = "timestamp_asc"
                          THEN rows[f[i]].timestamp <= rows[f[j]].timestamp
                          ELSE rows[f[i]].timestamp >= rows[f[j]].timestamp } }

PgQuery(t, q) ==
  { LET page == Slice(o, q.offset, QueryLimit(q))
    IN [i \in 1..Len(page) |-> rowToRecord(page[i])] :
      o \in PgOrders(PgFiltered(t, q), q.orderBy) }

PgGet(t, id) == {rowToRecord(t[i]) : i \in {j \in 1..Len(t) : t[j].id = id}}

\* count() without a query: SELECT COUNT(*).
PgCount(t) == Len(t)

\* getLastRecord: ORDER BY created_at DESC LIMIT 1.  created_at is the time
\* of the INSERT, so the rows of the table are in created_at order.
PgGetLast(t) == IF t = <<>> THEN {} ELSE {rowToRecord(t[Len(t)])}

\* getRange(fromId, toId): the rows whose created_at lies between those of
\* the two rows, ORDER BY created_at ASC; a subquery that finds no row gives
\* NULL and the comparison selects nothing.
PgGetRange(t, fromId, toId) ==
  LET fromAt == IndexOf([i \in 1..Len(t) |-> t[i].id], fromId)
      toAt == IndexOf([i \in 1..Len(t) |-> t[i].id], toId)
  IN IF fromAt = 0 \/ toAt = 0 THEN <<>>
     ELSE [i \in 1..Len(SubSeq(t, fromAt, toAt)) |->
             rowToRecord(SubSeq(t, fromAt, toAt)[i])]

\* ---------------------------------------------- InMemoryEvidenceStorage
\* The evidence Map holds an entry per store call, keyed by its storageRef;
\* an entry delete has removed is marked (ids are never given twice).
StorageRefOf(id) == <<"memory://", id>>

\* store(id, content, metadata).
EvidenceStore(ev, id, content, metadata) ==
  Append(ev, [storageRef |-> StorageRefOf(id), content |-> content,
              metadata |-> metadata, deleted |-> FALSE])

\* retrieve(storageRef): the set of the content found (empty: null).  A
\* Buffer is an object, so `data?.content || null` keeps an empty one.
EvidenceRetrieve(ev, storageRef) ==
  {ev[i].content :
     i \in {j \in 1..Len(ev) : ev[j].storageRef = storageRef /\ ~ev[j].deleted}}

\* count() and getTotalSize().
EvidenceCount(ev) == Cardinality({i \in 1..Len(ev) : ~ev[i].deleted})

RECURSIVE EvidenceTotalSize(_)
EvidenceTotalSize(ev) ==
  IF ev = <<>> THEN 0
  ELSE (IF Head(ev).deleted THEN 0 ELSE Len(Head(ev).content))
       + EvidenceTotalSize(Tail(ev))

\* ------------------------------------------------------ storage dispatch
\* this.storage.query(query): the answers the configured backend can give.
\* After PostgresAuditStorage.close this.client is null and every statement
\* throws: there is no answer.
StorageQuery(q) ==
  IF storageType = "memory" THEN {MemQuery(mem, q)}
  ELSE IF pgClient THEN PgQuery(table, q) ELSE {}

\* this.storage.get(id): the record, or nothing (null).
StorageGet(id) ==
  IF storageType = "memory" THEN MemGet(mem, id) ELSE PgGet(table, id)

\* this.storage.getRange(fromId, toId): the answers it can give (none from
\* a PostgresAuditStorage whose client is closed).
StorageGetRange(fromId, toId) ==
  IF storageType = "memory" THEN {MemGetRange(mem, fromId, toId)}
  ELSE IF pgClient THEN {PgGetRange(table, fromId, toId)} ELSE {}

\* this.storage.getLastRecord(): the record, or nothing (null).
StorageGetLast ==
  IF storageType = "memory" THEN MemGetLast(mem) ELSE PgGetLast(table)

\* this.storage.count().
StorageCount ==
  IF storageType = "memory" THEN MemCount(mem) ELSE PgCount(table)

StoredIds ==
  IF storageType = "memory" THEN Ids(mem.records) ELSE Ids(table)

\* --------------------------------------------------- AuditLogServiceImpl
IdleReader ==
  [op |-> "idle", phase |-> "idle", filter |-> NoFilter, id |-> 0,
   fromId |-> 0, toId |-> 0, snapshot |-> {}]

\* The operations that flush and then go on (to read from storage, to close
\* it).
ReaderOps == {"query", "verify", "shutdown", "export", "trail", "stats"}

\* No queryEvents call has returned yet.
NotAnswered == [filter |-> NoFilter, ids |-> <<>>, created |-> -1]

\* No exportEvents generator is being consumed.
IdleExporter ==
  [phase |-> "idle", filter |-> NoFilter, offset |-> 0, yielded |-> <<>>,
   snapshot |-> {}]

\* retentionDays: 0 and maxEvidenceSize: 10 MB of DEFAULT_CONFIG; with
\* retentionDays 0 AuditLogPlugin.init starts no retention timer.
DefaultRetentionAndEvidence ==
  /\ retentionDays = 0
  /\ retentionTimer = FALSE
  /\ maxEvidenceSize = MAX_EVIDENCE_DEFAULT
  /\ enableEvidenceStorage = TRUE

\* No function of the arka-aml plugin has been called.
NoAmlCall ==
  /\ amlCall = [fn |-> "none"]
  /\ amlResult = <<>>

\* The fields that `new AuditLogServiceImpl(config)` leaves as init() does on
\* an empty store, the stores and the histories.
Constructed ==
  /\ lastHash = NullHash
  /\ batchQueue = <<>>
  /\ mem = EmptyMem
  /\ table = <<>>
  /\ flights = {}
  /\ reader = IdleReader
  /\ clock = 1
  /\ created = <<>>
  /\ returned = {}
  /\ rejected = {}
  /\ tampered = 0
  /\ restartAt = 0
  /\ sweeps = 0
  /\ exporter = IdleExporter
  /\ evidence = <<>>
  /\ answered = NotAnswered
  /\ evidenceLog = <<>>
  /\ initCalls = <<>>

\* The state once `new AuditLogServiceImpl(config)` and `await init()` have
\* run on an empty store: getLastRecord() gave null, the flush timer runs.
InitService ==
  /\ Constructed
  /\ flushTimer = TRUE
  /\ timers = 1
  /\ initialized = TRUE

\* DEFAULT_CONFIG: storageType 'memory', enableHashChaining true;
\* InMemoryAuditStorage never throws.
Init ==
  /\ InitService
  /\ NoAmlCall
  /\ DefaultRetentionAndEvidence
  /\ storageType = "memory"
  /\ batchInsertSize = MemBatchSize
  /\ enableHashChaining = TRUE
  /\ pgClient = FALSE
  /\ faults = 0

\* enableHashChaining: false, in-memory deployment.
InitNoChain ==
  /\ InitService
  /\ NoAmlCall
  /\ DefaultRetentionAndEvidence
  /\ storageType = "memory"
  /\ batchInsertSize = MemBatchSize
  /\ enableHashChaining = FALSE
  /\ pgClient = FALSE
  /\ faults = 0

\* The plugin constructed with some retentionDays, in-memory deployment:
\* AuditLogPlugin.init starts the retention timer when retentionDays > 0.
InitRetention ==
  /\ InitService
  /\ NoAmlCall
  /\ storageType = "memory"
  /\ batchInsertSize = MemBatchSize
  /\ enableHashChaining = TRUE
  /\ pgClient = FALSE
  /\ faults = 0
  /\ retentionDays \in 0..MaxRetentionDays
  /\ retentionTimer = (retentionDays > 0)
  /\ maxEvidenceSize = MAX_EVIDENCE_DEFAULT
  /\ enableEvidenceStorage = TRUE

\* batchInsertSize: 1 and enableHashChaining: false, in-memory deployment:
\* every recordEvent flushes, and no record carries its predecessors' hashes.
InitTrail ==
  /\ InitService
  /\ NoAmlCall
  /\ DefaultRetentionAndEvidence
  /\ storageType = "memory"
  /\ batchInsertSize = 1
  /\ enableHashChaining = FALSE
  /\ pgClient = FALSE
  /\ faults = 0

\* A service configured with some maxEvidenceSize (bytes) and evidence
\* storage enabled or disabled, in-memory deployment.
InitEvidence ==
  /\ InitService
  /\ NoAmlCall
  /\ storageType = "memory"
  /\ batchInsertSize = MemBatchSize
  /\ enableHashChaining = TRUE
  /\ pgClient = FALSE
  /\ faults = 0
  /\ retentionDays = 0
  /\ retentionTimer = FALSE
  /\ maxEvidenceSize \in 0..MaxContentLen
  /\ enableEvidenceStorage \in BOOLEAN

\* The positive integers up to MaxAmount that are Numbers.
Amounts == {n \in 1..MaxAmount : IsNumber(n)}

\* A call calculateAnomalyScore(amount, typicalAmount) or, with a standard
\* deviation, calculateAnomalyScore(amount, typicalAmount, 3) is to be made.
InitAnomaly ==
  /\ InitService
  /\ DefaultRetentionAndEvidence
  /\ storageType = "memory"
  /\ batchInsertSize = MemBatchSize
  /\ enableHashChaining = TRUE
  /\ pgClient = FALSE
  /\ faults = 0
  /\ amlCall \in [fn : {"calculateAnomalyScore"}, amount : Amounts,
                   typicalAmount : Amounts, stdDev : {0, 3}]
  /\ amlResult = <<>>

\* The payloads callers hand to validateDomainData: transaction, account and
\* customer each absent or given, with the fields the validation reads.
Absent == [kind |-> Undefined]

Transactions ==
  {Absent, [kind |-> Null]}
  \cup [kind : {"object"}, amount : {-1, 0, 5000},
        sourceCountry : {Undefined, "", "US"},
        destCountry : {Undefined, "US", "PK"}]

Accounts == {Absent, [kind |-> "object"]}

Customers ==
  {Absent} \cup [kind : {"object"}, isPEP : BOOLEAN, sanctionsHits : {0, 2}]

EntityTypes == {"Transaction", "transaction", "Account", "UnknownType"}

\* A call validateDomainData(entityType, data) is to be made.
InitValidation ==
  /\ InitService
  /\ DefaultRetentionAndEvidence
  /\ storageType = "memory"
  /\ batchInsertSize = MemBatchSize
  /\ enableHashChaining = TRUE
  /\ pgClient = FALSE
  /\ faults = 0
  /\ amlCall \in [fn : {"validateDomainData"}, entityType : EntityTypes,
                   data : [transaction : Transactions, account : Accounts,
                           customer : Customers]]
  /\ amlResult = <<>>

\* storageType 'postgres', with a backend that may fail MaxFaults times.
InitPg ==
  /\ InitService
  /\ NoAmlCall
  /\ DefaultRetentionAndEvidence
  /\ storageType = "postgres"
  /\ batchInsertSize = PgBatchSize
  /\ enableHashChaining = TRUE
  /\ pgClient = TRUE
  /\ faults = MaxFaults

\* A service call (recordEvent, queryEvents, verifyIntegrity, getRecord) has
\* not ended.
CallInProgress ==
  reader.op # "idle" \/ \E f \in flights : f.owner # "timer"

\* Faulty variant of PreviousHashOf (C2): the record is not linked.
PreviousHashUnlinked(head) == NullHash

\* Faulty variant of NextLastHash (C3): the chain head is not advanced.
NextLastHashKept(head, recordHash) == head

\* The value recordEvent stores in record.previousHash.
PreviousHashOf(head) == IF enableHashChaining THEN head ELSE NullHash

\* `if (enableHashChaining) this.lastHash = recordHash`.
NextLastHash(head, recordHash) ==
  IF enableHashChaining THEN recordHash ELSE head

\* flushBatch from its entry to the first await that suspends, for a queue q
\* that is not empty: splice(0) takes the whole queue, insertBatch is entered.
\* InMemoryAuditStorage.insertBatch calls insert for the first record before
\* it first awaits; PostgresAuditStorage.insertBatch awaits connect() first.
BeginFlush(q, owner, rec) ==
  /\ batchQueue' = <<>>
  /\ flights' = flights \cup
       {[batch |-> q, done |-> IF storageType = "memory" THEN 1 ELSE 0,
         owner |-> owner, rec |-> rec]}
  /\ mem' = IF storageType = "memory" THEN MemInsert(mem, q[1]) ELSE mem

\* The number of recordEvent calls of a run.
RecordBound == IF batchInsertSize = 1 THEN MaxTrail ELSE MaxRecords

\* Faulty variant of RecordEvent (C33): the flush starts when the queue has
\* grown past batchInsertSize, not when it reaches it.
RecordEventFlushingLate(input, dt) ==
  /\ Len(created) < RecordBound
  /\ LET now == clock + dt
         id == Len(created) + 1
         recordHash == computeHash(HashContent(id, now, input, lastHash))
         record ==
           [id |-> id, timestamp |-> now, eventType |-> input.eventType,
            actor |-> input.actor, correlationIds |-> input.correlationIds,
            category |-> input.category, severity |-> input.severity,
            description |-> input.description, data |-> input.data,
            evidence |-> input.evidence,
            previousHash |-> PreviousHashOf(lastHash),
            recordHash |-> recordHash]
         queue == Append(batchQueue, record)
     IN /\ clock' = now
        /\ lastHash' = NextLastHash(lastHash, recordHash)
        /\ created' = Append(created, record)
        /\ IF Len(queue) > batchInsertSize
           THEN /\ BeginFlush(queue, "record", id)
                /\ UNCHANGED returned
           ELSE /\ batchQueue' = queue
                /\ returned' = returned \cup {id}
                /\ UNCHANGED <<flights, mem>>
  /\ UNCHANGED <<config, others, pgClient, restartAt, flushTimer, initialized, table, reader, faults,
                 rejected, tampered>>

\* recordEvent(input), called when Date.now() has advanced by dt.
RecordEvent(input, dt) ==
  /\ Len(created) < RecordBound
  /\ LET now == clock + dt
         id == Len(created) + 1
         recordHash == computeHash(HashContent(id, now, input, lastHash))
         record ==
           [id |-> id, timestamp |-> now, eventType |-> input.eventType,
            actor |-> input.actor, correlationIds |-> input.correlationIds,
            category |-> input.category, severity |-> input.severity,
            description |-> input.description, data |-> input.data,
            evidence |-> input.evidence,
            previousHash |-> PreviousHashOf(lastHash),
            recordHash |-> recordHash]
         queue == Append(batchQueue, record)
     IN /\ clock' = now
        /\ lastHash' = NextLastHash(lastHash, recordHash)
        /\ created' = Append(created, record)
        /\ IF Len(queue) >= batchInsertSize
           THEN /\ BeginFlush(queue, "record", id)
                /\ UNCHANGED returned
           ELSE /\ batchQueue' = queue
                /\ returned' = returned \cup {id}
                /\ UNCHANGED <<flights, mem>>
  /\ UNCHANGED <<config, others, pgClient, restartAt, flushTimer, initialized, table, reader, faults,
                 rejected, tampered>>

\* The setInterval callback of init: this.flushBatch().  A timer callback of
\* the in-memory deployment starts when no continuation is pending and its
\* flush (microtasks only) ends before any other task starts.
TimerTick ==
  /\ timers > 0
  /\ batchQueue # <<>>
  /\ IF storageType = "memory"
     THEN /\ ~CallInProgress
          /\ flights = {}
          /\ mem' = MemInsertAll(mem, batchQueue)
          /\ batchQueue' = <<>>
          /\ UNCHANGED flights
     ELSE BeginFlush(batchQueue, "timer", 0)
  /\ UNCHANGED <<config, others, pgClient, restartAt, lastHash, flushTimer, initialized, table,
                 reader, clock, faults, created, returned, rejected, tampered>>

\* insertBatch resumes and inserts its next record.  A row whose id is in the
\* table already cannot be inserted (PRIMARY KEY).
FlushInsert(f) ==
  /\ f \in flights
  /\ f.done < Len(f.batch)
  /\ LET r == f.batch[f.done + 1]
     IN IF storageType = "memory"
        THEN /\ mem' = MemInsert(mem, r)
             /\ UNCHANGED table
        ELSE /\ pgClient
             /\ r.id \notin Ids(table)
             /\ table' = Append(table, RowOf(r))
             /\ UNCHANGED mem
  /\ flights' = (flights \ {f}) \cup {[f EXCEPT !.done = f.done + 1]}
  /\ UNCHANGED <<config, others, pgClient, restartAt, lastHash, batchQueue, flushTimer, initialized,
                 reader, clock, faults, created, returned, rejected, tampered>>

\* insertBatch has inserted its last record: flushBatch returns and the call
\* that awaited it goes on (recordEvent returns its record; queryEvents and
\* verifyIntegrity go on to read).
FlushDone(f) ==
  /\ f \in flights
  /\ f.done = Len(f.batch)
  /\ flights' = flights \ {f}
  /\ returned' = IF f.owner = "record" THEN returned \cup {f.rec} ELSE returned
  /\ reader' =
       IF f.owner \in ReaderOps
       THEN [reader EXCEPT !.phase = "read"]
       ELSE reader
  /\ UNCHANGED <<config, others, pgClient, restartAt, lastHash, batchQueue, flushTimer, initialized,
                 mem, table, clock, faults, created, rejected, tampered>>

\* The queue flushBatch's catch block leaves: batchQueue.unshift(...batch).
Requeue(batch, queue) == batch \o queue

\* Faulty variant of FlushFail (C8): the catch block rolls the chain head back
\* to the last persisted record, as init seeds it.
FlushFailRollingBack(f) ==
  /\ storageType = "postgres"
  /\ f \in flights
  /\ f.done < Len(f.batch)
  /\ LET certain == f.batch[f.done + 1].id \in Ids(table) \/ ~pgClient
     IN /\ certain \/ faults > 0
        /\ faults' = IF certain THEN faults ELSE faults - 1
  /\ flights' = flights \ {f}
  /\ batchQueue' = f.batch \o batchQueue
  /\ lastHash' =
       IF table = <<>> THEN NullHash ELSE table[Len(table)].record_hash
  /\ rejected' = IF f.owner = "record" THEN rejected \cup {f.rec} ELSE rejected
  /\ reader' = IF f.owner \in ReaderOps THEN IdleReader ELSE reader
  /\ UNCHANGED <<config, others, pgClient, restartAt, flushTimer, initialized, mem,
                 table, clock, created, returned, tampered>>

\* Faulty variant of FlushFail (C20): the catch path removes from the table
\* the rows the failed batch had written.
FlushFailDeleting(f) ==
  /\ storageType = "postgres"
  /\ f \in flights
  /\ f.done < Len(f.batch)
  /\ LET certain == f.batch[f.done + 1].id \in Ids(table) \/ ~pgClient
     IN /\ certain \/ faults > 0
        /\ faults' = IF certain THEN faults ELSE faults - 1
  /\ flights' = flights \ {f}
  /\ batchQueue' = f.batch \o batchQueue
  /\ table' = SelectSeq(table, LAMBDA row : row.id \notin Ids(f.batch))
  /\ rejected' = IF f.owner = "record" THEN rejected \cup {f.rec} ELSE rejected
  /\ reader' = IF f.owner \in ReaderOps THEN IdleReader ELSE reader
  /\ UNCHANGED <<config, others, pgClient, restartAt, lastHash, flushTimer,
                 initialized, mem, clock, created, returned, tampered>>

\* An INSERT of insertBatch (or its connect/BEGIN) throws: a transient
\* backend failure, the PRIMARY KEY violation of a row that is there, or
\* this.client being null after close.
\* insert runs its statements on the pool, not on the client that holds the
\* transaction, so the rows written so far stay and ROLLBACK undoes nothing.
\* flushBatch puts the batch back and rethrows to its caller: recordEvent
\* rejects, queryEvents and verifyIntegrity reject, the timer callback (which
\* attaches no handler) leaves the rejection unhandled.
FlushFail(f) ==
  /\ storageType = "postgres"
  /\ f \in flights
  /\ f.done < Len(f.batch)
  /\ LET certain == f.batch[f.done + 1].id \in Ids(table) \/ ~pgClient
     IN /\ certain \/ faults > 0
        /\ faults' = IF certain THEN faults ELSE faults - 1
  /\ flights' = flights \ {f}
  /\ batchQueue' = Requeue(f.batch, batchQueue)
  /\ rejected' = IF f.owner = "record" THEN rejected \cup {f.rec} ELSE rejected
  /\ reader' = IF f.owner \in ReaderOps THEN IdleReader ELSE reader
  /\ UNCHANGED <<config, others, pgClient, restartAt, lastHash, flushTimer, initialized, mem, table,
                 clock, created, returned, tampered>>

\* `await this.flushBatch()` at the head of queryEvents and verifyIntegrity;
\* snapshot notes the records recordEvent had returned when the call came,
\* fromId and toId are the arguments of verifyIntegrity (0: undefined).
FlushThenCall(op, filter, fromId, toId) ==
  /\ reader.op = "idle"
  /\ IF batchQueue = <<>>
     THEN /\ reader' = [op |-> op, phase |-> "read", filter |-> filter,
                        id |-> 0, fromId |-> fromId, toId |-> toId,
                        snapshot |-> returned]
          /\ UNCHANGED <<batchQueue, flights, mem>>
     ELSE /\ reader' = [op |-> op, phase |-> "flush", filter |-> filter,
                        id |-> 0, fromId |-> fromId, toId |-> toId,
                        snapshot |-> returned]
          /\ BeginFlush(batchQueue, op, 0)

\* The same for a call that takes no record ids.
FlushThenRead(op, filter) == FlushThenCall(op, filter, 0, 0)

\* queryEvents(query) up to its await.
QueryStart(q) ==
  /\ FlushThenRead("query", q)
  /\ UNCHANGED <<config, others, pgClient, restartAt, lastHash, flushTimer, initialized, table, clock,
                 faults, created, returned, rejected, tampered>>

\* What `return this.storage.query(query)` of the suspended queryEvents call
\* returns when it runs now.
QueryAnswers == StorageQuery(reader.filter)

\* queryEvents returns.
QueryRead ==
  /\ reader.op = "query"
  /\ reader.phase = "read"
  /\ reader' = IdleReader
  /\ UNCHANGED <<config, others, pgClient, restartAt, lastHash, batchQueue, flushTimer, initialized,
                 mem, table, flights, clock, faults, created, returned,
                 rejected, tampered>>

\* The loop of verifyIntegrity: the id of the first record that does not
\* follow its predecessor or whose recomputed hash is not its recordHash
\* (0: firstInvalidId stays undefined).
RECURSIVE FirstInvalid(_, _, _)
FirstInvalid(records, i, previousHash) ==
  IF i > Len(records) THEN 0
  ELSE LET record == records[i]
           expectedHash ==
             computeHash(HashContent(record.id, record.timestamp, record,
                                     record.previousHash))
       IN IF previousHash # NullHash /\ record.previousHash # previousHash
          THEN record.id
          ELSE IF expectedHash # record.recordHash
               THEN record.id
               ELSE FirstInvalid(records, i + 1, record.recordHash)

\* Faulty variant of IntegrityResult (C39): recordsChecked counts the records
\* the loop has looked at.
IntegrityResultCountingWalked(records) ==
  LET firstInvalidId == FirstInvalid(records, 1, NullHash)
  IN [valid |-> (firstInvalidId = 0),
      recordsChecked |-> IF firstInvalidId = 0 THEN Len(records)
                         ELSE IndexOf(IdSeq(records), firstInvalidId),
      firstInvalidId |-> firstInvalidId, error |-> Undefined]

\* The IntegrityCheckResult verifyIntegrity builds from the fetched records.
IntegrityResult(records) ==
  LET firstInvalidId == FirstInvalid(records, 1, NullHash)
  IN [valid |-> (firstInvalidId = 0), recordsChecked |-> Len(records),
      firstInvalidId |-> firstInvalidId, error |-> Undefined]

\* Faulty variant of VerifyStart (C17): the flush comes before the test of
\* enableHashChaining.
VerifyStartFlushing ==
  /\ FlushThenRead("verify", VerifyQuery)
  /\ UNCHANGED <<config, others, pgClient, restartAt, lastHash, flushTimer,
                 initialized, table, clock, faults, created, returned,
                 rejected, tampered>>

\* verifyIntegrity() (no fromId, no toId) up to its await; with hash chaining
\* disabled it returns its result before it has flushed or read anything.
VerifyStart ==
  /\ IF enableHashChaining
     THEN FlushThenRead("verify", VerifyQuery)
     ELSE /\ reader.op = "idle"
          /\ reader' = [op |-> "verify", phase |-> "read",
                        filter |-> VerifyQuery, id |-> 0, fromId |-> 0,
                        toId |-> 0, snapshot |-> returned]
          /\ UNCHANGED <<batchQueue, flights, mem>>
  /\ UNCHANGED <<config, others, pgClient, restartAt, lastHash, flushTimer,
                 initialized, table, clock, faults, created, returned,
                 rejected, tampered>>

\* verifyIntegrity(fromId, toId) with at least one of the two ids given, up
\* to its await.
VerifyRange(fromId, toId) ==
  /\ fromId # 0 \/ toId # 0
  /\ IF enableHashChaining
     THEN FlushThenCall("verify", VerifyQuery, fromId, toId)
     ELSE /\ reader.op = "idle"
          /\ reader' = [op |-> "verify", phase |-> "read",
                        filter |-> VerifyQuery, id |-> 0, fromId |-> fromId,
                        toId |-> toId, snapshot |-> returned]
          /\ UNCHANGED <<batchQueue, flights, mem>>
  /\ UNCHANGED <<config, others, pgClient, restartAt, lastHash, flushTimer,
                 initialized, table, clock, faults, created, returned,
                 rejected, tampered>>

\* queryEvents returns one of the answers storage can give; the caller keeps
\* it, with the number of records created so far.
QueryReadNoted ==
  /\ reader.op = "query"
  /\ reader.phase = "read"
  /\ reader' = IdleReader
  /\ \E res \in QueryAnswers :
       answered' = [filter |-> reader.filter, ids |-> IdSeq(res),
                    created |-> Len(created)]
  /\ UNCHANGED <<config, pgClient, restartAt, lastHash, batchQueue,
                 flushTimer, life, initialized, mem, table, flights, clock, faults,
                 created, returned, rejected, tampered, retentionTimer,
                 sweeps, exporter, evidence, evidenceLog, aml>>

\* exportEvents(query) consumed from its first next(): the generator runs up
\* to `await this.flushBatch()`; offset = 0, nothing yielded yet.
ExportStart(q) ==
  /\ exporter.phase \in {"idle", "done"}
  /\ FlushThenRead("export", q)
  /\ exporter' = [phase |-> "flush", filter |-> q, offset |-> 0,
                  yielded |-> <<>>, snapshot |-> returned]
  /\ UNCHANGED <<config, pgClient, restartAt, lastHash, flushTimer, life,
                 initialized, table, clock, faults, created, returned,
                 rejected, tampered, retentionTimer, sweeps, evidence,
                 answered, evidenceLog, aml>>

\* One turn of the while loop of exportEvents: the page at the current
\* offset is fetched and its records are yielded to the consumer; a full page
\* moves the offset on, a short one ends the generator.  Between two turns
\* the consumer is free to make other calls.
ExportFetch ==
  /\ \/ exporter.phase = "flush" /\ reader.op = "export"
        /\ reader.phase = "read"
     \/ exporter.phase = "run" /\ reader.op = "idle"
  /\ reader' = IdleReader
  /\ \E records \in StorageQuery([exporter.filter EXCEPT
                                    !.limit = PAGE_SIZE,
                                    !.offset = exporter.offset]) :
       LET hasMore == Len(records) = PAGE_SIZE
       IN exporter' =
            [exporter EXCEPT
               !.yielded = @ \o IdSeq(records),
               !.offset = @ + PAGE_SIZE,
               !.phase = IF hasMore THEN "run" ELSE "done"]
  /\ UNCHANGED <<config, pgClient, restartAt, lastHash, batchQueue,
                 flushTimer, life, initialized, mem, table, flights, clock, faults,
                 created, returned, rejected, tampered, retentionTimer,
                 sweeps, evidence, answered, evidenceLog, aml>>

\* getByTransactionId(transactionId) / getByEntityId(entityId) up to the
\* await of flushBatch.
GetByCorrelationId(axis, value) ==
  /\ FlushThenRead("trail", TrailQuery(axis, value))
  /\ UNCHANGED <<config, others, pgClient, restartAt, lastHash, flushTimer,
                 initialized, table, clock, faults, created, returned,
                 rejected, tampered>>

\* What `return this.storage.query(...)` of the suspended lookup returns.
TrailAnswers == StorageQuery(reader.filter)

\* getByTransactionId / getByEntityId returns.
TrailRead ==
  /\ reader.op = "trail"
  /\ reader.phase = "read"
  /\ reader' = IdleReader
  /\ UNCHANGED <<config, others, pgClient, restartAt, lastHash, batchQueue,
                 flushTimer, initialized, mem, table, flights, clock, faults,
                 created, returned, rejected, tampered>>

\* The query of getStats' breakdown.
StatsQuery == [NoFilter EXCEPT !.limit = STATS_LIMIT]

\* The tally of getStats' loop for one field of the records: an object with
\* a key for every value met and its number of records.
CountBy(records, field) ==
  [v \in {records[i][field] : i \in 1..Len(records)} |->
     Cardinality({i \in 1..Len(records) : records[i][field] = v})]

\* oldestRecord / newestRecord of getStats' loop (undefined for no record).
OldestOf(records) ==
  IF records = <<>> THEN Undefined
  ELSE CHOOSE t \in {records[i].timestamp : i \in 1..Len(records)} :
         \A i \in 1..Len(records) : t <= records[i].timestamp

NewestOf(records) ==
  IF records = <<>> THEN Undefined
  ELSE CHOOSE t \in {records[i].timestamp : i \in 1..Len(records)} :
         \A i \in 1..Len(records) : t >= records[i].timestamp

\* The AuditStats getStats builds from the count and the records it read.
StatsOf(totalRecords, allRecords) ==
  [totalRecords |-> totalRecords,
   byEventType |-> CountBy(allRecords, "eventType"),
   byCategory |-> CountBy(allRecords, "category"),
   bySeverity |-> CountBy(allRecords, "severity"),
   evidenceCount |-> EvidenceCount(evidence),
   totalEvidenceSize |-> EvidenceTotalSize(evidence),
   oldestRecord |-> OldestOf(allRecords),
   newestRecord |-> NewestOf(allRecords)]

\* getStats() up to the await of flushBatch.
StatsStart ==
  /\ FlushThenRead("stats", StatsQuery)
  /\ UNCHANGED <<config, others, pgClient, restartAt, lastHash, flushTimer,
                 initialized, table, clock, faults, created, returned,
                 rejected, tampered>>

\* getStats after its flush: `await this.storage.count()` is answered; the
\* call keeps the number (in reader.id) and goes on to the breakdown query.
StatsCount ==
  /\ reader.op = "stats"
  /\ reader.phase = "read"
  /\ reader' = [reader EXCEPT !.phase = "list", !.id = StorageCount]
  /\ UNCHANGED <<config, others, pgClient, restartAt, lastHash, batchQueue,
                 flushTimer, initialized, mem, table, flights, clock, faults,
                 created, returned, rejected, tampered>>

\* What the suspended getStats call returns when its breakdown query is
\* answered now.
StatsAnswers ==
  {StatsOf(reader.id, allRecords) : allRecords \in StorageQuery(StatsQuery)}

\* getStats returns.
StatsRead ==
  /\ reader.op = "stats"
  /\ reader.phase = "list"
  /\ reader' = IdleReader
  /\ UNCHANGED <<config, others, pgClient, restartAt, lastHash, batchQueue,
                 flushTimer, initialized, mem, table, flights, clock, faults,
                 created, returned, rejected, tampered>>

\* What the suspended verifyIntegrity call returns when it reads now.
VerifyAnswers ==
  IF enableHashChaining
  THEN IF reader.fromId # 0 /\ reader.toId # 0
       THEN {IntegrityResult(records) :
               records \in StorageGetRange(reader.fromId, reader.toId)}
       ELSE {IntegrityResult(records) : records \in StorageQuery(VerifyQuery)}
  ELSE {[valid |-> TRUE, recordsChecked |-> 0, firstInvalidId |-> 0,
         error |-> "Hash chaining is disabled"]}

\* Faulty variant of VerifyRead (C19): verification repairs what it finds,
\* putting every stored record back to the content it was created with.
VerifyReadRepairing ==
  /\ reader.op = "verify"
  /\ reader.phase = "read"
  /\ reader' = IdleReader
  /\ mem' = [mem EXCEPT !.records =
               [i \in 1..Len(mem.records) |-> created[mem.records[i].id]]]
  /\ UNCHANGED <<config, others, pgClient, restartAt, lastHash, batchQueue,
                 flushTimer, initialized, table, flights, clock, faults,
                 created, returned, rejected, tampered>>

\* verifyIntegrity returns.
VerifyRead ==
  /\ reader.op = "verify"
  /\ reader.phase = "read"
  /\ reader' = IdleReader
  /\ UNCHANGED <<config, others, pgClient, restartAt, lastHash, batchQueue, flushTimer, initialized,
                 mem, table, flights, clock, faults, created, returned,
                 rejected, tampered>>

\* getRecord(id): it does not flush.  A record found in batchQueue is
\* returned at once (nothing changes); otherwise storage.get(id) is called and
\* the call waits for its answer.
GetStart(id) ==
  /\ reader.op = "idle"
  /\ reader' =
       IF id \in Ids(batchQueue) THEN reader
       ELSE [op |-> "get", phase |-> "read", filter |-> NoFilter, id |-> id,
             fromId |-> 0, toId |-> 0, snapshot |-> returned]
  /\ UNCHANGED <<config, others, pgClient, restartAt, lastHash, batchQueue,
                 flushTimer, initialized, mem, table, flights, clock, faults,
                 created, returned, rejected, tampered>>

\* What storage.get(id) answers the suspended getRecord call when it runs
\* now: the record, or nothing (null).
GetAnswers == StorageGet(reader.id)

\* getRecord returns.
GetRead ==
  /\ reader.op = "get"
  /\ reader.phase = "read"
  /\ reader' = IdleReader
  /\ UNCHANGED <<config, others, pgClient, restartAt, lastHash, batchQueue,
                 flushTimer, initialized, mem, table, flights, clock, faults,
                 created, returned, rejected, tampered>>

\* shutdown() up to its first await: the timer is cleared, the queue flushed.
ShutdownStart ==
  /\ flushTimer' = FALSE
  /\ timers' = IF flushTimer THEN timers - 1 ELSE timers
  /\ FlushThenRead("shutdown", NoFilter)
  /\ UNCHANGED <<retentionTimer, sweeps, exporter, evidence, answered,
                 evidenceLog, aml, initCalls>>
  /\ UNCHANGED <<config, pgClient, restartAt, lastHash, initialized, table,
                 clock, faults, created, returned, rejected, tampered>>

\* shutdown() after its flush: storage.close() and `initialized = false`.
\* InMemoryAuditStorage.close clears the records; PostgresAuditStorage.close
\* ends the pool and sets this.client to null.
ShutdownClose ==
  /\ reader.op = "shutdown"
  /\ reader.phase = "read"
  /\ mem' = IF storageType = "memory" THEN EmptyMem ELSE mem
  /\ pgClient' = FALSE
  /\ initialized' = FALSE
  /\ reader' = IdleReader
  /\ UNCHANGED <<config, others, restartAt, lastHash, batchQueue, flushTimer, table,
                 flights, clock, faults, created, returned, rejected,
                 tampered>>

\* init() called on a service that is not initialized (after shutdown; on an
\* initialized one it returns at once): storage.init(), lastHash seeded from
\* getLastRecord() when there is a last record, the flush timer started.
InitCall ==
  /\ ~initialized
  /\ reader.op = "idle"
  /\ pgClient' = (storageType = "postgres")
  /\ lastHash' =
       IF enableHashChaining /\ StorageGetLast # {}
       THEN (CHOOSE lastRecord \in StorageGetLast : TRUE).recordHash
       ELSE lastHash
  /\ flushTimer' = TRUE
  /\ timers' = timers + 1
  /\ initialized' = TRUE
  /\ UNCHANGED <<retentionTimer, sweeps, exporter, evidence, answered,
                 evidenceLog, aml, initCalls>>
  /\ UNCHANGED <<config, restartAt, batchQueue, mem, table, flights, reader,
                 clock, faults, created, returned, rejected, tampered>>

\* init() up to `await this.storage.init()`: a call on an initialized service
\* returns at once, any other call goes on, whether or not an earlier init()
\* has ended.
InitStart ==
  /\ ~initialized
  /\ timers + Len(initCalls) < MaxTimers
  /\ initCalls' = Append(initCalls, [phase |-> "storage", lastRecord |-> {}])
  /\ UNCHANGED <<retentionTimer, sweeps, exporter, evidence, answered,
                 evidenceLog, aml, timers>>
  /\ UNCHANGED <<config, pgClient, restartAt, lastHash, batchQueue,
                 flushTimer, initialized, mem, table, flights, reader, clock,
                 faults, created, returned, rejected, tampered>>

\* The init() calls in flight without call k.
InitCallsWithout(k) ==
  SubSeq(initCalls, 1, k - 1) \o SubSeq(initCalls, k + 1, Len(initCalls))

\* The end of init(): setInterval starts a flush timer and its handle
\* replaces whatever this.flushTimer held, then `initialized = true`.
InitArm(k) ==
  /\ flushTimer' = TRUE
  /\ timers' = timers + 1
  /\ initialized' = TRUE
  /\ initCalls' = InitCallsWithout(k)

\* storage.init() of init() call k has resolved (PostgresAuditStorage.init
\* has set this.client); with hash chaining the call goes on to
\* `await this.storage.getLastRecord()`, without it to the end of init().
InitStorageReady(k) ==
  /\ initCalls[k].phase = "storage"
  /\ pgClient' = (storageType = "postgres")
  /\ IF enableHashChaining
     THEN /\ initCalls' =
               [initCalls EXCEPT ![k] = [phase |-> "last",
                                         lastRecord |-> StorageGetLast]]
          /\ UNCHANGED <<flushTimer, timers, initialized>>
     ELSE InitArm(k)
  /\ UNCHANGED <<retentionTimer, sweeps, exporter, evidence, answered,
                 evidenceLog, aml>>
  /\ UNCHANGED <<config, restartAt, lastHash, batchQueue, mem, table,
                 flights, reader, clock, faults, created, returned, rejected,
                 tampered>>

\* getLastRecord() of init() call k has answered: lastHash takes the hash of
\* the last record when there is one, and init() runs to its end.
InitFinish(k) ==
  /\ initCalls[k].phase = "last"
  /\ lastHash' =
       IF initCalls[k].lastRecord # {}
       THEN (CHOOSE lastRecord \in initCalls[k].lastRecord : TRUE).recordHash
       ELSE lastHash
  /\ InitArm(k)
  /\ UNCHANGED <<retentionTimer, sweeps, exporter, evidence, answered,
                 evidenceLog, aml>>
  /\ UNCHANGED <<config, pgClient, restartAt, batchQueue, mem, table,
                 flights, reader, clock, faults, created, returned, rejected,
                 tampered>>

\* Some record has been handed to recordEvent's queue and is not stored.
Unflushed ==
  \/ batchQueue # <<>>
  \/ \E f \in flights : \E k \in 1..Len(f.batch) : f.batch[k].id \notin StoredIds

\* The process stops while records are unflushed and a new service is
\* constructed and initialised on the same database: the fields of the new
\* AuditLogServiceImpl are those of the constructor, every pending call and
\* flush is gone with the old process, and init seeds lastHash from
\* getLastRecord().
Restart ==
  /\ storageType = "postgres"
  /\ Unflushed
  /\ batchQueue' = <<>>
  /\ flights' = {}
  /\ reader' = IdleReader
  /\ pgClient' = TRUE
  /\ lastHash' =
       IF enableHashChaining /\ PgGetLast(table) # {}
       THEN (CHOOSE lastRecord \in PgGetLast(table) : TRUE).recordHash
       ELSE NullHash
  /\ flushTimer' = TRUE
  /\ timers' = 1
  /\ initCalls' = <<>>
  /\ initialized' = TRUE
  /\ restartAt' = Len(created)
  /\ UNCHANGED <<retentionTimer, sweeps, exporter, evidence, answered,
                 evidenceLog, aml>>
  /\ UNCHANGED <<config, mem, table, clock, faults, created, returned,
                 rejected, tampered>>

\* Faulty variant of RunRetentionCleanup (C22): the sweep prunes the store.
RunRetentionCleanupDeleting ==
  /\ retentionTimer
  /\ ~CallInProgress
  /\ sweeps < MaxSweeps
  /\ sweeps' = sweeps + 1
  /\ mem' = IF retentionDays > 0
            THEN MemDeleteOlderThan(mem, clock + 1 - retentionDays)
            ELSE mem
  /\ UNCHANGED <<config, pgClient, restartAt, lastHash, batchQueue,
                 flushTimer, life, initialized, table, flights, reader, clock,
                 faults, created, returned, rejected, tampered,
                 retentionTimer, exporter, evidence, answered, evidenceLog,
                 aml>>

\* A run of runRetentionCleanup, from the daily timer or the startup timeout
\* startRetentionCleanup sets: with retentionDays > 0 it computes the cutoff
\* and logs, and it deletes nothing.
RunRetentionCleanup ==
  /\ retentionTimer
  /\ ~CallInProgress
  /\ sweeps < MaxSweeps
  /\ sweeps' = sweeps + 1
  /\ UNCHANGED <<config, pgClient, restartAt, lastHash, batchQueue,
                 flushTimer, life, initialized, mem, table, flights, reader, clock,
                 faults, created, returned, rejected, tampered,
                 retentionTimer, exporter, evidence, answered, evidenceLog,
                 aml>>

\* A PostgresAuditStorage is fed the record the in-memory store of the
\* service received next: insert(record) on an empty table that keeps up with
\* the in-memory store.
MirrorInsert ==
  /\ storageType = "memory"
  /\ Len(table) < Len(mem.records)
  /\ table' = Append(table, RowOf(mem.records[Len(table) + 1]))
  /\ UNCHANGED <<config, others, pgClient, restartAt, lastHash, batchQueue,
                 flushTimer, initialized, mem, flights, reader, clock,
                 faults, created, returned, rejected, tampered>>

\* The contents callers submit: Buffers of up to MaxContentLen bytes.
Bytes == {0, 255}

Contents == UNION {[1..n -> Bytes] : n \in 0..MaxContentLen}

\* Buffer.toString('base64'): an encoding that tells any two contents apart.
Base64(content) == <<"base64", content>>

\* `this.config.maxEvidenceSize || 10 * 1024 * 1024`.
EvidenceLimit ==
  IF maxEvidenceSize # 0 THEN maxEvidenceSize ELSE MAX_EVIDENCE_DEFAULT

\* storeEvidence(input): with evidence storage disabled, or with content
\* longer than the limit, it throws before anything is written; otherwise the content is stored under a new id with
\* its metadata and the attachment (id, size, contentHash) is returned.
StoreEvidence(content) ==
  /\ Len(evidenceLog) < MaxEvidence
  /\ LET id == Len(evidence) + 1
         contentHash == computeHash(Base64(content))
         metadata == [id |-> id, size |-> Len(content),
                      contentHash |-> contentHash]
     IN IF ~enableEvidenceStorage \/ Len(content) > EvidenceLimit
        THEN /\ evidenceLog' =
                  Append(evidenceLog, [content |-> content,
                                       outcome |-> "rejected", id |-> 0,
                                       contentHash |-> NullHash])
             /\ UNCHANGED evidence
        ELSE /\ evidence' = EvidenceStore(evidence, id, content, metadata)
             /\ evidenceLog' =
                  Append(evidenceLog, [content |-> content,
                                       outcome |-> "stored", id |-> id,
                                       contentHash |-> contentHash])
  /\ UNCHANGED <<config, pgClient, restartAt, lastHash, batchQueue,
                 flushTimer, life, initialized, mem, table, flights, reader, clock,
                 faults, created, returned, rejected, tampered,
                 retentionTimer, sweeps, exporter, answered, aml>>

\* Faulty variant of GetEvidence (C30): the hash is taken over the raw
\* bytes, not over their base64 text.
GetEvidenceHashingRaw(id) ==
  {[id |-> id, size |-> Len(content), contentHash |-> computeHash(content),
    content |-> content] : content \in EvidenceRetrieve(evidence, StorageRefOf(id))}

\* getEvidence(id): the set of the EvidenceData returned (empty: null).
GetEvidence(id) ==
  {[id |-> id, size |-> Len(content),
    contentHash |-> computeHash(Base64(content)), content |-> content] :
     content \in EvidenceRetrieve(evidence, StorageRefOf(id))}

\* InMemoryEvidenceStorage.delete(storageRef) of a stored evidence.
DeleteEvidence(id) ==
  /\ id \in 1..Len(evidence)
  /\ ~evidence[id].deleted
  /\ evidence' = [evidence EXCEPT ![id].deleted = TRUE]
  /\ UNCHANGED <<config, pgClient, restartAt, lastHash, batchQueue,
                 flushTimer, life, initialized, mem, table, flights, reader, clock,
                 faults, created, returned, rejected, tampered,
                 retentionTimer, sweeps, exporter, answered, evidenceLog, aml>>

\* The pending call of calculateAnomalyScore is made and returns.
CalculateAnomalyScore ==
  /\ amlCall.fn = "calculateAnomalyScore"
  /\ amlResult = <<>>
  /\ amlResult' = <<calculateAnomalyScore(amlCall.amount,
                                          amlCall.typicalAmount,
                                          amlCall.stdDev)>>
  /\ UNCHANGED <<config, pgClient, restartAt, lastHash, batchQueue,
                 flushTimer, life, initialized, mem, table, flights, reader, clock,
                 faults, created, returned, rejected, tampered,
                 retentionTimer, sweeps, exporter, evidence, answered,
                 evidenceLog, amlCall>>

\* The pending call of validateDomainData is made and returns.
ValidateDomainData ==
  /\ amlCall.fn = "validateDomainData"
  /\ amlResult = <<>>
  /\ amlResult' = <<validateDomainData(amlCall.entityType, amlCall.data)>>
  /\ UNCHANGED <<config, pgClient, restartAt, lastHash, batchQueue,
                 flushTimer, life, initialized, mem, table, flights, reader, clock,
                 faults, created, returned, rejected, tampered,
                 retentionTimer, sweeps, exporter, evidence, answered,
                 evidenceLog, amlCall>>

\* storage.deleteOlderThan(timestamp), the bulk deletion by age, called while
\* no service call is in progress.
DeleteOlderThan(timestamp) ==
  /\ storageType = "memory"
  /\ ~CallInProgress
  /\ mem' = MemDeleteOlderThan(mem, timestamp)
  /\ UNCHANGED <<config, others, pgClient, restartAt, lastHash, batchQueue,
                 flushTimer, initialized, table, flights, reader, clock,
                 faults, created, returned, rejected, tampered>>

\* Someone with access to the store changes one persisted record: its data,
\* its description or its recordHash.  No service call is in progress, so the
\* next verifyIntegrity call follows the change.
Tamper(i, field) ==
  /\ storageType = "memory"
  /\ tampered = 0
  /\ ~CallInProgress
  /\ i \in 1..Len(mem.records)
  /\ mem' =
       [mem EXCEPT !.records[i] =
          IF field = "data" THEN [@ EXCEPT !.data = <<9>>]
          ELSE IF field = "description"
               THEN [@ EXCEPT !.description = "tampered"]
               ELSE [@ EXCEPT !.recordHash = <<"forged">>]]
  /\ tampered' = mem.records[i].id
  /\ UNCHANGED <<config, others, pgClient, restartAt, lastHash, batchQueue,
                 flushTimer, initialized, table, flights, reader, clock,
                 faults, created, returned, rejected>>

\* One caller that issues its calls one after another (each call is awaited
\* before the next is made), in-memory deployment; the store may be tampered
\* with once.
NextSeq ==
  \/ \E input \in Inputs, dt \in {0, 1} :
       ~CallInProgress /\ RecordEvent(input, dt)
  \/ TimerTick
  \/ \E f \in flights : FlushInsert(f)
  \/ \E f \in flights : FlushDone(f)
  \/ \E q \in Filters : ~CallInProgress /\ QueryStart(q)
  \/ QueryRead
  \/ ~CallInProgress /\ VerifyStart
  \/ VerifyRead
  \/ \E i \in 1..MaxRecords, field \in {"data", "description", "recordHash"} :
       Tamper(i, field)

\* One caller that records and verifies, on a host whose wall clock
\* (Date.now()) may stand still or be set back between two calls.
NextSkew ==
  \/ \E input \in Inputs, dt \in {-1, 0, 1} :
       ~CallInProgress /\ clock + dt >= 1 /\ RecordEvent(input, dt)
  \/ TimerTick
  \/ \E f \in flights : FlushInsert(f)
  \/ \E f \in flights : FlushDone(f)
  \/ ~CallInProgress /\ VerifyStart
  \/ VerifyRead

SpecSkew == Init /\ [][NextSkew]_vars

\* One caller that records and verifies, and a retention job that prunes the
\* in-memory store by age.
NextRetain ==
  \/ \E input \in Inputs, dt \in {0, 1} :
       ~CallInProgress /\ RecordEvent(input, dt)
  \/ TimerTick
  \/ \E f \in flights : FlushInsert(f)
  \/ \E f \in flights : FlushDone(f)
  \/ ~CallInProgress /\ VerifyStart
  \/ VerifyRead
  \/ \E timestamp \in 1..(MaxRecords + 2) : DeleteOlderThan(timestamp)

SpecRetain == Init /\ [][NextRetain]_vars

\* One caller that records, and the plugin's retention sweep.
NextRetention ==
  \/ \E input \in Inputs, dt \in {0, 1} :
       ~CallInProgress /\ RecordEvent(input, dt)
  \/ TimerTick
  \/ \E f \in flights : FlushInsert(f)
  \/ \E f \in flights : FlushDone(f)
  \/ RunRetentionCleanup

SpecRetention == InitRetention /\ [][NextRetention]_vars

\* One caller that records and queries with the filters of QueryFilters.
NextQuery ==
  \/ \E input \in Inputs, dt \in {0, 1} :
       ~CallInProgress /\ RecordEvent(input, dt)
  \/ TimerTick
  \/ \E f \in flights : FlushInsert(f)
  \/ \E f \in flights : FlushDone(f)
  \/ \E q \in QueryFilters : ~CallInProgress /\ QueryStart(q)
  \/ QueryRead

SpecQuery == Init /\ [][NextQuery]_vars

\* The in-memory service of one caller, and a relational backend that is fed
\* the same inserts.
NextBackends ==
  \/ \E input \in Inputs, dt \in {0, 1} :
       ~CallInProgress /\ RecordEvent(input, dt)
  \/ TimerTick
  \/ \E f \in flights : FlushInsert(f)
  \/ \E f \in flights : FlushDone(f)
  \/ MirrorInsert

SpecBackends == Init /\ [][NextBackends]_vars

\* One caller that records and consumes an export, making other calls
\* between two pages.
NextExport ==
  \/ \E input \in Inputs, dt \in {0, 1} :
       ~CallInProgress /\ RecordEvent(input, dt)
  \/ TimerTick
  \/ \E f \in flights : FlushInsert(f)
  \/ \E f \in flights : FlushDone(f)
  \/ \E q \in Filters : ~CallInProgress /\ ExportStart(q)
  \/ ExportFetch

SpecExport == Init /\ [][NextExport]_vars

\* One caller that records the events of one transaction and entity and
\* asks for their audit trail.
NextTrail ==
  \/ ~CallInProgress /\ RecordEvent(RoundTripInput, 1)
  \/ \E f \in flights : FlushDone(f)
  \/ ~CallInProgress /\ GetByCorrelationId("transactionId", "c1")
  \/ ~CallInProgress /\ GetByCorrelationId("entityId", "c1")
  \/ TrailRead

SpecTrail == InitTrail /\ [][NextTrail]_vars

\* Callers that store, read and delete evidence.
NextEvidence ==
  \/ \E content \in Contents : StoreEvidence(content)
  \/ \E id \in 1..MaxEvidence : DeleteEvidence(id)

SpecEvidence == InitEvidence /\ [][NextEvidence]_vars

\* One caller that records events and stores evidence.
NextEvidenceLedger ==
  \/ \E input \in Inputs : ~CallInProgress /\ RecordEvent(input, 1)
  \/ TimerTick
  \/ \E f \in flights : FlushInsert(f)
  \/ \E f \in flights : FlushDone(f)
  \/ \E content \in Contents : ~CallInProgress /\ StoreEvidence(content)

SpecEvidenceLedger == InitEvidence /\ [][NextEvidenceLedger]_vars

\* One caller that records and asks for the statistics.
NextStats ==
  \/ \E input \in Inputs, dt \in {0, 1} :
       ~CallInProgress /\ RecordEvent(input, dt)
  \/ TimerTick
  \/ \E f \in flights : FlushInsert(f)
  \/ \E f \in flights : FlushDone(f)
  \/ ~CallInProgress /\ StatsStart
  \/ StatsCount
  \/ StatsRead

SpecStats == Init /\ [][NextStats]_vars

\* A caller of calculateAnomalyScore.
NextAnomaly == CalculateAnomalyScore

SpecAnomaly == InitAnomaly /\ [][NextAnomaly]_vars

\* A caller of validateDomainData.
NextValidation == ValidateDomainData

SpecValidation == InitValidation /\ [][NextValidation]_vars

\* The same caller on a service configured without hash chaining.
SpecNoChain == InitNoChain /\ [][NextSeq]_vars

\* The event the relational runs record (what is recorded does not change
\* the flush pipeline).
PgInputs == {CHOOSE input \in Inputs : input.severity = "critical"}

\* Callers that run concurrently, relational deployment.
NextPg ==
  \/ \E input \in PgInputs : RecordEvent(input, 1)
  \/ TimerTick
  \/ \E f \in flights : FlushInsert(f)
  \/ \E f \in flights : FlushDone(f)
  \/ \E f \in flights : FlushFail(f)
  \/ QueryStart(NoFilter)
  \/ QueryRead

\* A relational deployment whose process may stop and be started again, with
\* callers that record and verify.
NextPgRestart ==
  \/ RecordEvent(RoundTripInput, 1)
  \/ TimerTick
  \/ \E f \in flights : FlushInsert(f)
  \/ \E f \in flights : FlushDone(f)
  \/ \E f \in flights : FlushFail(f)
  \/ VerifyStart
  \/ VerifyRead
  \/ Restart

SpecPgRestart == InitPg /\ [][NextPgRestart]_vars

\* One caller that records and verifies, relational deployment whose
\* backend does not fail.
NextPgVerify ==
  \/ \E input \in Inputs : ~CallInProgress /\ RecordEvent(input, 1)
  \/ TimerTick
  \/ \E f \in flights : FlushInsert(f)
  \/ \E f \in flights : FlushDone(f)
  \/ ~CallInProgress /\ VerifyStart
  \/ VerifyRead

SpecPgVerify == InitPg /\ [][NextPgVerify]_vars

\* One caller that records and queries, each call awaited before the next,
\* relational deployment whose backend does not fail; the flush timer runs.
NextPgQuery ==
  \/ \E input \in PgInputs : ~CallInProgress /\ RecordEvent(input, 1)
  \/ TimerTick
  \/ \E f \in flights : FlushInsert(f)
  \/ \E f \in flights : FlushDone(f)
  \/ ~CallInProgress /\ QueryStart(NoFilter)
  \/ QueryReadNoted

SpecPgQuery == InitPg /\ [][NextPgQuery]_vars

\* The same, with callers that look records up by id.
NextPgGet ==
  \/ NextPg
  \/ \E id \in 1..MaxRecords : GetStart(id)
  \/ GetRead

\* Callers that run concurrently, record events, look records up by id and
\* store evidence (an empty content or one byte), relational deployment.
NextNotFound ==
  \/ NextPgGet
  \/ \E content \in {<<>>, <<255>>} : StoreEvidence(content)

SpecNotFound == InitPg /\ [][NextNotFound]_vars

\* The ids a caller passes to verifyIntegrity: none (0), the id of a record
\* it may have been given, an id that no record has.
RangeIds == 0..(MaxRecords + 1)

\* One caller that records and verifies ranges, in-memory deployment, and
\* someone who changes a persisted record.
NextRange ==
  \/ \E input \in Inputs : ~CallInProgress /\ RecordEvent(input, 1)
  \/ TimerTick
  \/ \E f \in flights : FlushInsert(f)
  \/ \E f \in flights : FlushDone(f)
  \/ \E fromId, toId \in RangeIds :
       ~CallInProgress /\ VerifyRange(fromId, toId)
  \/ ~CallInProgress /\ VerifyStart
  \/ VerifyRead
  \/ \E i \in 1..MaxRecords, field \in {"data", "description", "recordHash"} :
       Tamper(i, field)

SpecRange == Init /\ [][NextRange]_vars

SpecSeq == Init /\ [][NextSeq]_vars

\* One caller that issues its calls one after another and also shuts the
\* service down and initialises it again, in-memory deployment.
NextLife ==
  \/ \E input \in Inputs : ~CallInProgress /\ RecordEvent(input, 1)
  \/ TimerTick
  \/ \E f \in flights : FlushInsert(f)
  \/ \E f \in flights : FlushDone(f)
  \/ \E q \in Filters : ~CallInProgress /\ QueryStart(q)
  \/ QueryRead
  \/ ~CallInProgress /\ ShutdownStart
  \/ ShutdownClose
  \/ ~CallInProgress /\ InitCall

SpecLife == Init /\ [][NextLife]_vars

SpecPg == InitPg /\ [][NextPg]_vars

SpecPgGet == InitPg /\ [][NextPgGet]_vars

\* Callers that run concurrently, one of which shuts the service down,
\* relational deployment.
NextPgShutdown ==
  \/ NextPg
  \/ ShutdownStart
  \/ ShutdownClose

SpecPgShutdown == InitPg /\ [][NextPgShutdown]_vars

\* A relational deployment just constructed: init() has not been called.
InitPgConstructed ==
  /\ Constructed
  /\ flushTimer = FALSE
  /\ timers = 0
  /\ initialized = FALSE
  /\ NoAmlCall
  /\ DefaultRetentionAndEvidence
  /\ storageType = "postgres"
  /\ batchInsertSize = PgBatchSize
  /\ enableHashChaining = TRUE
  /\ pgClient = FALSE
  /\ faults = 0

\* Callers that run concurrently and call init() and shutdown() as they
\* like, relational deployment.
NextPgInit ==
  \/ InitStart
  \/ \E k \in 1..Len(initCalls) : InitStorageReady(k)
  \/ \E k \in 1..Len(initCalls) : InitFinish(k)
  \/ ShutdownStart
  \/ ShutdownClose
  \/ RecordEvent(RoundTripInput, 1)
  \/ TimerTick
  \/ \E f \in flights : FlushInsert(f)
  \/ \E f \in flights : FlushDone(f)
  \/ \E f \in flights : FlushFail(f)

SpecPgInit == InitPgConstructed /\ [][NextPgInit]_vars

\* The flush whose batch starts with record id makes its next step.
FlushStepOf(id) ==
  \E f \in flights :
    /\ f.batch[1].id = id
    /\ FlushInsert(f) \/ FlushDone(f) \/ FlushFail(f)

\* setInterval keeps calling the timer callback, and every statement sent to
\* the backend is answered.
SpecPgFair ==
  /\ SpecPg
  /\ WF_vars(TimerTick)
  /\ \A id \in 1..MaxRecords : WF_vars(FlushStepOf(id))

\* ============================================================ properties
\* recordHash of the most recently created record (null before the first).
ChainHead ==
  IF created = <<>> THEN NullHash ELSE created[Len(created)].recordHash

\* This step is a recordEvent call creating its record.
RecordStep == Len(created') = Len(created) + 1

\* This step is the failure of the flush f: it leaves unfinished.
FlushFailedStep(f) ==
  /\ f \in flights
  /\ f.done < Len(f.batch)
  /\ f \notin flights'
  /\ [f EXCEPT !.done = f.done + 1] \notin flights'

InCreationOrder(q) == \A i, j \in 1..Len(q) : i < j => q[i].id < q[j].id

\* A verifyIntegrity() call is about to read and return.
VerifyReturning == reader.op = "verify" /\ reader.phase = "read"

\* A queryEvents call is about to read and return.
QueryReturning == reader.op = "query" /\ reader.phase = "read"

\* A getRecord call is about to read and return.
GetReturning == reader.op = "get" /\ reader.phase = "read"

C2_ChainContinuity ==
  \A i \in 1..Len(created) :
    created[i].previousHash =
      IF i = 1 THEN NullHash ELSE created[i - 1].recordHash

\* C2 witness: all records created, some persisted, a flush has failed.
C2_Witness ==
  /\ Len(created) = MaxRecords
  /\ faults < MaxFaults
  /\ StoredIds # {}
  /\ batchQueue # <<>>

\* C3: under every interleaving of recordEvent callers and flushes, no two
\* records carry the same previousHash, lastHash is the recordHash of the most
\* recently created record, and lastHash changes exactly in the step that
\* creates a record, which also reads the old head and queues the record.
C3_AtomicChainHead ==
  /\ [](/\ \A i, j \in 1..Len(created) :
             i # j => created[i].previousHash # created[j].previousHash
        /\ lastHash = ChainHead)
  /\ [][(lastHash' # lastHash \/ Len(created') # Len(created)) =>
          /\ RecordStep
          /\ lastHash' # lastHash
          /\ lastHash' = created'[Len(created')].recordHash
          /\ created'[Len(created')].previousHash = lastHash
          /\ \/ created'[Len(created')] \in
                  {batchQueue'[k] : k \in 1..Len(batchQueue')}
             \/ \E f \in flights' :
                  created'[Len(created')] \in
                    {f.batch[k] : k \in 1..Len(f.batch)}]_vars

\* C3 witness: a recordEvent call has created a record while another
\* recordEvent call was suspended in its flush.
C3_Witness ==
  \E f \in flights : f.owner = "record" /\ Len(created) > f.rec

\* C4 (as amended): one persisted record of a chain recorded call after call
\* has its data, description or recordHash changed; when that record is among
\* the records the full-range query fetches, verifyIntegrity() returns valid =
\* false and firstInvalidId is its id or the id of the record after it.
C4_TamperDetectedWithinLimit ==
  (VerifyReturning /\ tampered # 0
     /\ tampered \in Ids(MemQuery(mem, VerifyQuery))) =>
    \A res \in VerifyAnswers :
      /\ ~res.valid
      /\ res.firstInvalidId \in {tampered, tampered + 1}

\* C4 as stated: every such change is found.
C4_TamperDetected ==
  (VerifyReturning /\ tampered # 0) =>
    \A res \in VerifyAnswers :
      /\ ~res.valid
      /\ res.firstInvalidId \in {tampered, tampered + 1}

\* C4 witness: verifyIntegrity returns after the second of the persisted
\* records was changed, and names it.
C4_Witness ==
  /\ VerifyReturning
  /\ tampered = 2
  /\ \E res \in VerifyAnswers : ~res.valid /\ res.firstInvalidId = 2

\* C5 as stated: a getRecord(id) call for a record that recordEvent had
\* returned when the call was made gets the record, also while a flush that
\* took the record out of the queue is in flight.
C5_GetRecordFindsReturned ==
  (GetReturning /\ reader.id \in reader.snapshot) => GetAnswers # {}

\* C6 as stated: the result of queryEvents holds every record that
\* recordEvent had returned when queryEvents was called and that matches the
\* filter (the filters of the model have no limit and no offset).
C6_QueryHoldsReturned ==
  QueryReturning =>
    \A res \in QueryAnswers :
      \A id \in reader.snapshot :
        PgMatches(RowOf(created[id]), reader.filter) => id \in Ids(res)

\* C7 as stated: a failed flush puts its batch back in front of the queue, in
\* its order and ahead of the records recorded meanwhile, the queue is then in
\* creation order, and the caller of the flush gets the error.
C7_RequeueKeepsCreationOrder ==
  [][\A f \in flights :
       FlushFailedStep(f) =>
         /\ batchQueue' = f.batch \o batchQueue
         /\ InCreationOrder(batchQueue')
         /\ f.owner = "record" => f.rec \in rejected'
         /\ f.owner \in ReaderOps => reader' = IdleReader]_vars

\* C8: a failing flush leaves lastHash alone: after the failure lastHash is
\* still the recordHash of the most recently created record, and every
\* recordEvent chains its record onto the most recently created one.
C8_FailedFlushKeepsHead ==
  [][/\ \A f \in flights :
          FlushFailedStep(f) => lastHash' = lastHash /\ lastHash' = ChainHead'
     /\ RecordStep => created'[Len(created')].previousHash = ChainHead]_vars

\* C8 witness: a flush has failed and put its batch back, and the queue holds
\* a record chained onto the record before it.
C8_Witness ==
  /\ faults < MaxFaults
  /\ Len(batchQueue) >= 2
  /\ batchQueue[2].previousHash = batchQueue[1].recordHash
  /\ lastHash = ChainHead

\* C9 as stated: every recordEvent call that has ended has returned its
\* record.
C9_RecordEventReturns ==
  \A id \in 1..Len(created) :
    (~\E f \in flights : f.owner = "record" /\ f.rec = id) => id \in returned

\* C10 as stated: once the backend has stopped failing, every record that
\* recordEvent returned is eventually in storage exactly once.
C10_EventuallyStoredOnce ==
  \A id \in 1..MaxRecords :
    (faults = 0 /\ id \in returned) ~>
      (Cardinality({j \in 1..Len(table) : table[j].id = id}) = 1)

\* This step is the return of insertBatch for the flush f.
FlushSucceededStep(f) ==
  /\ f \in flights
  /\ f.done = Len(f.batch)
  /\ f \notin flights'

\* C11 as stated: when insertBatch fails none of the records of its batch is
\* in storage, and when it returns all of them are.
C11_InsertBatchAllOrNothing ==
  [][\A f \in flights :
       /\ FlushFailedStep(f) =>
            \A k \in 1..Len(f.batch) : f.batch[k].id \notin StoredIds'
       /\ FlushSucceededStep(f) =>
            \A k \in 1..Len(f.batch) : f.batch[k].id \in StoredIds']_vars

\* This step is the return of shutdown().
ShutdownReturns ==
  /\ reader.op = "shutdown"
  /\ reader.phase = "read"
  /\ reader'.op = "idle"

\* C12 as stated: when shutdown() returns the timer is cleared, the queue is
\* empty and every record recordEvent had returned when shutdown was called
\* was written before storage.close() ran.
C12_ShutdownFlushesAll ==
  [][ShutdownReturns =>
       /\ ~flushTimer'
       /\ batchQueue' = <<>>
       /\ reader.snapshot \subseteq StoredIds]_vars

\* C13 as stated: the result of a queryEvents call holds every record that
\* recordEvent had returned before and that matches the filter, also when the
\* service has been shut down in between (the filters of the model have no
\* limit and no offset).
C13_QueryHoldsRecorded ==
  QueryReturning =>
    \A res \in QueryAnswers :
      \A id \in reader.snapshot :
        MemMatches(created[id], reader.filter) => id \in Ids(res)

\* C14 as stated: once shutdown has completed, no call changes the chain
\* head, the pending batch or storage, and no query is answered.
C14_ClosedAcceptsNothing ==
  /\ [](~initialized => reader.op \in {"idle", "shutdown"})
  /\ [][(~initialized /\ ~initialized') =>
          UNCHANGED <<lastHash, batchQueue, mem, table>>]_vars

\* C15 as stated: when init() completes, lastHash is the recordHash of the
\* record getLastRecord() returns, and null when storage holds no record.
C15_InitSeedsLastHash ==
  [][(~initialized /\ initialized') =>
       lastHash' =
         IF StorageGetLast' = {} THEN NullHash
         ELSE (CHOOSE lastRecord \in StorageGetLast' : TRUE).recordHash]_vars

\* The rows that were in the table when the process was last restarted, in
\* insertion order (a flush of the old process does not outlive it).
PersistedAtRestart == SelectSeq(table, LAMBDA row : row.id <= restartAt)

\* C16 as stated: after a restart with unflushed records the first record
\* recorded carries the recordHash of the last persisted record as its
\* previousHash, and verifyIntegrity() returns valid = true.
C16_RestartRecovery ==
  /\ (restartAt > 0 /\ Len(created) > restartAt) =>
       created[restartAt + 1].previousHash =
         IF PersistedAtRestart = <<>> THEN NullHash
         ELSE PersistedAtRestart[Len(PersistedAtRestart)].record_hash
  /\ (restartAt > 0 /\ VerifyReturning) =>
       \A res \in VerifyAnswers : res.valid

\* A step of a verifyIntegrity call: the call is made or it returns.
VerifyStep == reader'.op = "verify" \/ reader.op = "verify"

\* C17: with hash chaining disabled verifyIntegrity returns valid = true
\* (with nothing checked) whatever the store holds, and the call changes
\* neither the pending batch nor storage nor lastHash: it does not flush.
C17_NoChainVerifyIsNoOp ==
  /\ []((VerifyReturning /\ ~enableHashChaining) =>
          \A res \in VerifyAnswers : res.valid /\ res.recordsChecked = 0)
  /\ [][(VerifyStep /\ ~enableHashChaining) =>
          UNCHANGED <<batchQueue, flights, mem, table, lastHash>>]_vars

\* verifyIntegrity returns on a service without chaining while a record is
\* pending in the batch and a stored record has been changed.
C17_Witness ==
  /\ VerifyReturning
  /\ ~enableHashChaining
  /\ batchQueue # <<>>
  /\ tampered # 0
  /\ VerifyAnswers # {}

\* C18 as stated: the records verifyIntegrity fetches and walks are in
\* creation order, also when timestamps are equal or not increasing.
C18_VerifyWalksCreationOrder ==
  VerifyReturning =>
    \A records \in StorageQuery(VerifyQuery) : InCreationOrder(records)

\* C19: verifyIntegrity reports and never repairs.  No step of a
\* verifyIntegrity call changes a record that is stored or lastHash (the flush
\* at its head only adds records), and the store it leaves when it returns
\* gives a second call the same valid and firstInvalidId.
C19_VerifyNeverRepairs ==
  [][VerifyStep =>
       /\ lastHash' = lastHash
       /\ Len(mem'.records) >= Len(mem.records)
       /\ \A i \in 1..Len(mem.records) : mem'.records[i] = mem.records[i]
       /\ table' = table
       /\ (VerifyReturning /\ reader'.op = "idle") =>
            /\ Cardinality(VerifyAnswers) = 1
            /\ \A after \in {MemQuery(mem', VerifyQuery)} :
                 \A res \in VerifyAnswers :
                   /\ IntegrityResult(after).valid = res.valid
                   /\ IntegrityResult(after).firstInvalidId =
                        res.firstInvalidId]_vars

\* verifyIntegrity is about to report a record of a chain with a head as
\* invalid.
C19_Witness ==
  /\ VerifyReturning
  /\ tampered # 0
  /\ lastHash # NullHash
  /\ \E res \in VerifyAnswers : ~res.valid /\ res.firstInvalidId = tampered

\* C20: immutability and append-only.  Every stored row is the row of the
\* record as recordEvent created it, and a step of recordEvent, of a flush
\* (failed or not) or of a query leaves every stored record in its place and
\* unchanged: storage changes by appended records only.
C20_AppendOnly ==
  /\ [](\A i \in 1..Len(table) : table[i] = RowOf(created[table[i].id]))
  /\ [][/\ Len(table') >= Len(table)
        /\ \A i \in 1..Len(table) : table'[i] = table[i]
        /\ Len(mem'.records) >= Len(mem.records)
        /\ \A i \in 1..Len(mem.records) :
             mem'.records[i] = mem.records[i]]_vars

\* A batch that failed is back in the queue with a record whose row is
\* stored: the retry will insert a stored id again.
C20_Witness ==
  /\ table # <<>>
  /\ \E k \in 1..Len(batchQueue) : batchQueue[k].id \in Ids(table)

\* Some record that was created is neither stored nor pending: it has been
\* deleted; and some record is stored.
DeletedSomeNotAll ==
  /\ StoredIds # {}
  /\ batchQueue = <<>>
  /\ flights = {}
  /\ \E id \in 1..Len(created) : id \notin StoredIds

\* C21 as stated: after deleteOlderThan has removed some but not all
\* persisted records, a full verifyIntegrity() returns valid = false.
C21_DeletionBreaksVerification ==
  (VerifyReturning /\ DeletedSomeNotAll) =>
    \A res \in VerifyAnswers : ~res.valid

\* C22: the retention sweep deletes nothing.  With retentionDays 0 no sweep
\* is scheduled and none runs; a sweep leaves storage, the pending batch,
\* the flushes in flight and lastHash as they were.
C22_SweepDeletesNothing ==
  /\ [](retentionDays = 0 => ~retentionTimer /\ sweeps = 0)
  /\ [][sweeps' # sweeps =>
          UNCHANGED <<mem, table, batchQueue, flights, lastHash>>]_vars

\* The last sweep of a run has happened with retention configured, records
\* old enough to be pruned in storage and a record pending.
C22_Witness ==
  /\ retentionDays > 0
  /\ sweeps = MaxSweeps
  /\ batchQueue # <<>>
  /\ \E i \in 1..Len(mem.records) :
       mem.records[i].timestamp < clock + 1 - retentionDays

\* What the filter q asks for: every criterion given, on every one of the
\* seven correlation axes.
MatchesFilter(r, q) ==
  /\ q.eventTypes # {} => r.eventType \in q.eventTypes
  /\ q.categories # {} => r.category \in q.categories
  /\ q.severities # {} => r.severity \in q.severities
  /\ q.actorId # Undefined => r.actor.id = q.actorId
  /\ \A a \in CorrAxes :
       q.correlationIds[a] # Undefined =>
         r.correlationIds[a] = q.correlationIds[a]
  /\ q.fromTimestamp # 0 => r.timestamp >= q.fromTimestamp
  /\ q.toTimestamp # 0 => r.timestamp < q.toTimestamp

\* s is sorted by timestamp in the direction orderBy asks for.
SortedByTimestamp(s, orderBy) ==
  \A i, j \in 1..Len(s) :
    i < j => IF orderBy = "timestamp_asc"
             THEN s[i].timestamp <= s[j].timestamp
             ELSE s[i].timestamp >= s[j].timestamp

\* The number of stored records that match q.
MatchCount(q) ==
  Cardinality({i \in 1..Len(mem.records) : MatchesFilter(mem.records[i], q)})

\* C23 as stated: a query result holds only records that match every
\* criterion of the filter, sorted by timestamp in the requested direction,
\* and as many of them as the limit/offset window of the matching records
\* holds.
C23_QueryMatchesFilter ==
  QueryReturning =>
    \A res \in QueryAnswers :
      /\ \A i \in 1..Len(res) : MatchesFilter(res[i], reader.filter)
      /\ SortedByTimestamp(res, reader.filter.orderBy)
      /\ LET n == MatchCount(reader.filter) - reader.filter.offset
         IN Len(res) = Min(QueryLimit(reader.filter), IF n > 0 THEN n ELSE 0)

\* Both backends have received the same inserts.
SameInserts == IdSeq(mem.records) = [i \in 1..Len(table) |-> table[i].id]

\* C24 as stated: fed the same inserts, the two backends answer every query
\* filter, getRange and getLastRecord with the same records in the same
\* order (a record is told by its id).
C24_BackendsInterchangeable ==
  SameInserts =>
    /\ \A q \in QueryFilters \cup Filters :
         \A res \in PgQuery(table, q) : IdSeq(res) = IdSeq(MemQuery(mem, q))
    /\ \A fromId, toId \in 1..MaxRecords :
         IdSeq(PgGetRange(table, fromId, toId)) =
           IdSeq(MemGetRange(mem, fromId, toId))
    /\ {r.id : r \in PgGetLast(table)} = {r.id : r \in MemGetLast(mem)}

\* The hash verifyIntegrity recomputes for a record it has read is the
\* recordHash the record carries.
HashRecomputes(record) ==
  computeHash(HashContent(record.id, record.timestamp, record,
                          record.previousHash)) = record.recordHash

\* C25 as stated: a record read back from the backend recomputes to its
\* recordHash, and verifyIntegrity over the untampered records, all of them
\* stored, returns valid = true.
C25_RoundTripKeepsHash ==
  /\ \A i \in 1..Len(table) : HashRecomputes(rowToRecord(table[i]))
  /\ tampered = 0 =>
       \A i \in 1..Len(mem.records) : HashRecomputes(mem.records[i])
  /\ (VerifyReturning /\ tampered = 0 /\ StoredIds = Ids(created)) =>
       \A res \in VerifyAnswers : res.valid

\* C26 as stated: a queryEvents call that follows one with the same filter,
\* with no record created since the first returned (the calls of this caller
\* do not overlap), returns the same records in the same order.
C26_QueryIdempotent ==
  [][(/\ QueryReturning
      /\ reader'.op = "idle"
      /\ answered.filter = reader.filter
      /\ answered.created = Len(created)) =>
       answered'.ids = answered.ids]_vars

\* C27 as stated: an export that has ended has yielded every record that
\* matches its filter and was recorded when it began, and no record twice,
\* also when records were recorded and flushed between two page fetches.
C27_ExportYieldsEachOnce ==
  exporter.phase = "done" =>
    /\ \A i, j \in 1..Len(exporter.yielded) :
         i # j => exporter.yielded[i] # exporter.yielded[j]
    /\ \A id \in exporter.snapshot :
         MemMatches(created[id], exporter.filter) =>
           \E i \in 1..Len(exporter.yielded) : exporter.yielded[i] = id

\* A getByTransactionId / getByEntityId call is about to read and return.
TrailReturning == reader.op = "trail" /\ reader.phase = "read"

\* C28 as stated: the audit trail returned holds all recorded records with
\* the correlation id asked for and no others, in ascending timestamp order,
\* whatever their number.
C28_TrailIsComplete ==
  TrailReturning =>
    \A res \in TrailAnswers :
      /\ Ids(res) = {id \in 1..Len(created) :
                       MatchesFilter(created[id], reader.filter)}
      /\ SortedByTimestamp(res, "timestamp_asc")

\* This step is a storeEvidence call; StoreCall is the call it adds.
StoreEvidenceStep == Len(evidenceLog') = Len(evidenceLog) + 1

StoreCall == evidenceLog'[Len(evidenceLog')]

\* C29 as stated: storeEvidence with content longer than the configured
\* maxEvidenceSize fails and leaves the evidence store's count and size, the
\* pending batch, storage and lastHash as they were; content of at most
\* maxEvidenceSize bytes is accepted (by a service that stores evidence).
C29_OversizeEvidenceRejected ==
  [][StoreEvidenceStep =>
       IF Len(StoreCall.content) > maxEvidenceSize
       THEN /\ StoreCall.outcome = "rejected"
            /\ EvidenceCount(evidence') = EvidenceCount(evidence)
            /\ EvidenceTotalSize(evidence') = EvidenceTotalSize(evidence)
            /\ UNCHANGED <<batchQueue, mem, table, lastHash>>
       ELSE enableEvidenceStorage => StoreCall.outcome = "stored"]_vars

\* C30: evidence round trip.  For every content storeEvidence accepted,
\* getEvidence with the id returned gives the same bytes and the contentHash
\* storeEvidence returned, as long as the evidence has not been deleted (and
\* null afterwards).
C30_EvidenceRoundTrip ==
  \A k \in 1..Len(evidenceLog) :
    evidenceLog[k].outcome = "stored" =>
      LET call == evidenceLog[k]
      IN IF evidence[call.id].deleted
         THEN GetEvidence(call.id) = {}
         ELSE /\ GetEvidence(call.id) # {}
              /\ \A data \in GetEvidence(call.id) :
                   /\ data.content = call.content
                   /\ data.contentHash = call.contentHash
                   /\ data.size = Len(call.content)

\* An empty content and one of the longest have been stored, and one of the
\* two has been deleted since.
C30_Witness ==
  /\ \E k \in 1..Len(evidenceLog) :
       evidenceLog[k].outcome = "stored" /\ evidenceLog[k].content = <<>>
  /\ \E k \in 1..Len(evidenceLog) :
       /\ evidenceLog[k].outcome = "stored"
       /\ Len(evidenceLog[k].content) = maxEvidenceSize
       /\ maxEvidenceSize > 0
  /\ EvidenceCount(evidence) = 1
  /\ Len(evidence) = 2

\* No recordEvent call has returned or will return the record id: no call
\* has made it, or the call that made it has thrown.
NeverReturned(id) == id > Len(created) \/ id \in rejected

\* storeEvidence has returned the evidence id.
EvidenceReturned(id) ==
  \E k \in 1..Len(evidenceLog) :
    evidenceLog[k].outcome = "stored" /\ evidenceLog[k].id = id

\* This step is a step of a getRecord call.
GetRecordStep == reader' # reader /\ "get" \in {reader.op, reader'.op}

\* C31 as stated: getRecord with an id that recordEvent never returned gives
\* null (from the queue and from storage), getEvidence with an id that
\* storeEvidence never returned gives null, and a lookup changes no state.
C31_NotFoundIsNull ==
  /\ [](\A id \in 1..(MaxRecords + 1) :
          NeverReturned(id) =>
            /\ id \notin Ids(batchQueue)
            /\ (GetReturning /\ reader.id = id) => GetAnswers = {})
  /\ [](\A id \in 1..(MaxEvidence + 1) :
          ~EvidenceReturned(id) => GetEvidence(id) = {})
  /\ [][GetRecordStep =>
          UNCHANGED <<config, others, pgClient, restartAt, lastHash,
                      batchQueue, flushTimer, initialized, mem, table, flights,
                      clock, faults, created, returned, rejected,
                      tampered>>]_vars

\* A getStats call is about to get its breakdown and return.
StatsReturning == reader.op = "stats" /\ reader.phase = "list"

\* The entry of a breakdown for a value (a key that is absent counts 0).
Tally(breakdown, v) == IF v \in DOMAIN breakdown THEN breakdown[v] ELSE 0

\* The sum of the entries of a breakdown.
RECURSIVE TallySum(_, _)
TallySum(breakdown, keys) ==
  IF keys = {} THEN 0
  ELSE LET v == CHOOSE k \in keys : TRUE
       IN breakdown[v] + TallySum(breakdown, keys \ {v})

\* The number of recorded events whose field has the value v.
RecordedWith(field, v) ==
  Cardinality({i \in 1..Len(created) : created[i][field] = v})

FillingStep == RecordStep /\ Len(batchQueue) + 1 >= batchInsertSize

\* No failure of the backend has occurred.
NoFailureYet == faults = MaxFaults /\ rejected = {}

\* C33: size-driven flush.  A recordEvent call whose record brings the
\* queue to batchInsertSize records starts a flush of the whole queue in the
\* same step and does not return before that flush has inserted its batch;
\* as long as the backend has not failed, the queue holds fewer than
\* batchInsertSize records.
C33_SizeDrivenFlush ==
  /\ [][FillingStep =>
          LET record == created'[Len(created')]
          IN /\ batchQueue' = <<>>
             /\ record.id \notin returned'
             /\ \E f \in flights' \ flights :
                  /\ f.owner = "record"
                  /\ f.rec = record.id
                  /\ f.batch = Append(batchQueue, record)]_vars
  /\ [][\A f \in flights :
          (f.owner = "record" /\ f.rec \in returned' \ returned) =>
            /\ f.done = Len(f.batch)
            /\ Ids(f.batch) \subseteq StoredIds]_vars
  /\ [](NoFailureYet => Len(batchQueue) < batchInsertSize)

\* C33 witness: the flush a recordEvent call started on reaching
\* batchInsertSize has inserted its whole batch, the call is about to return,
\* and a record made meanwhile waits in the queue.
C33_Witness ==
  /\ NoFailureYet
  /\ batchQueue # <<>>
  /\ \E f \in flights :
       /\ f.owner = "record"
       /\ Len(f.batch) = batchInsertSize
       /\ f.done = Len(f.batch)
       /\ Ids(f.batch) \subseteq StoredIds

\* A call of calculateAnomalyScore without standard deviation has returned.
ScoredByRatio ==
  /\ amlCall.fn = "calculateAnomalyScore"
  /\ amlCall.stdDev = 0
  /\ amlResult # <<>>

\* The score the claim gives for amount and typicalAmount.
ScoreBand(amount, typicalAmount) ==
  IF amount > 10 * typicalAmount THEN 100
  ELSE IF amount > 5 * typicalAmount THEN 80
  ELSE IF amount > 3 * typicalAmount THEN 60
  ELSE IF amount > 2 * typicalAmount THEN 40
  ELSE 0

\* The integer a score stands for.
ScoreValue(score) == score.m * Pow2(score.e)

\* The result is one of the five scores and no smaller amount scores higher
\* against the same typicalAmount.
ScoreInRangeAndMonotone ==
  /\ amlResult[1] \in {Num(0), Num(40), Num(60), Num(80), Num(100)}
  /\ \A lower \in Amounts :
       lower <= amlCall.amount =>
         ScoreValue(calculateAnomalyScore(lower, amlCall.typicalAmount, 0))
           <= ScoreValue(amlResult[1])

\* C34 (as amended): for positive integers amount and typicalAmount up to
\* 2^FLOAT_BITS (every integer up to there is a Number and the quotient
\* rounds to the right side of each threshold), calculateAnomalyScore without
\* standard deviation returns 0, 40, 60, 80 or 100 by the band amount lies in;
\* for every amount the result is one of the five scores and non-decreasing
\* in amount.
C34_ScoreBySafeRatio ==
  ScoredByRatio =>
    /\ ScoreInRangeAndMonotone
    /\ (amlCall.amount <= Pow2(FLOAT_BITS)
          /\ amlCall.typicalAmount <= Pow2(FLOAT_BITS)) =>
         amlResult[1]
           = Num(ScoreBand(amlCall.amount, amlCall.typicalAmount))

\* C34 as stated: the bands hold for every positive integer amount and
\* typicalAmount.
C34_ScoreByRatio ==
  ScoredByRatio =>
    /\ ScoreInRangeAndMonotone
    /\ amlResult[1] = Num(ScoreBand(amlCall.amount, amlCall.typicalAmount))

\* C34 witness: an amount one above 3 x typicalAmount has scored 60.
C34_Witness ==
  /\ ScoredByRatio
  /\ amlCall.amount = 3 * amlCall.typicalAmount + 1
  /\ amlCall.amount <= Pow2(FLOAT_BITS)
  /\ amlCall.typicalAmount > 1
  /\ amlResult[1] = Num(60)

\* A call of validateDomainData has returned.
Validated == amlCall.fn = "validateDomainData" /\ amlResult # <<>>

\* The codes of a list of errors.
Codes(errors) == {errors[i] : i \in 1..Len(errors)}

\* The errors the claim names for a 'Transaction' payload: one for what is
\* missing among transaction, account and customer, and for a transaction
\* that is given, one for a negative amount and one for each missing country.
NamedErrors(data) ==
  {code \in {"MISSING_TRANSACTION", "MISSING_ACCOUNT", "MISSING_CUSTOMER",
             "INVALID_AMOUNT", "MISSING_SOURCE_COUNTRY",
             "MISSING_DEST_COUNTRY"} :
     \/ code = "MISSING_TRANSACTION" /\ data.transaction.kind # "object"
     \/ code = "MISSING_ACCOUNT" /\ data.account.kind # "object"
     \/ code = "MISSING_CUSTOMER" /\ data.customer.kind # "object"
     \/ /\ data.transaction.kind = "object"
        /\ \/ code = "INVALID_AMOUNT" /\ data.transaction.amount < 0
           \/ /\ code = "MISSING_SOURCE_COUNTRY"
              /\ data.transaction.sourceCountry \in {Undefined, ""}
           \/ /\ code = "MISSING_DEST_COUNTRY"
              /\ data.transaction.destCountry \in {Undefined, ""}}

\* C35: validateDomainData returns valid = true exactly when its errors list
\* is empty; for entity type 'Transaction' the errors are those of a missing
\* transaction, account or customer, of a negative amount and of a missing
\* source or destination country, one each and no other; for every other
\* entity type the result is valid = false with the one error
\* UNKNOWN_ENTITY_TYPE.
C35_ValidationReportsErrors ==
  Validated =>
    LET result == amlResult[1]
    IN /\ result.valid <=> result.errors = <<>>
       /\ IF amlCall.entityType = "Transaction"
          THEN /\ Codes(result.errors) = NamedErrors(amlCall.data)
               /\ Len(result.errors) = Cardinality(NamedErrors(amlCall.data))
          ELSE /\ ~result.valid
               /\ result.errors = <<"UNKNOWN_ENTITY_TYPE">>

\* C35 witness: a 'Transaction' payload with a negative amount, no
\* destination country and no customer has been found invalid with those
\* three errors.
C35_Witness ==
  /\ Validated
  /\ amlCall.entityType = "Transaction"
  /\ ~amlResult[1].valid
  /\ amlResult[1].errors =
       <<"INVALID_AMOUNT", "MISSING_DEST_COUNTRY", "MISSING_CUSTOMER">>

\* The ids of the persisted records in the order the backend inserted them:
\* orderedIds, or the rows by created_at.
InsertionOrder ==
  IF storageType = "memory" THEN mem.orderedIds ELSE IdSeq(table)

\* C36 as stated: whatever the interleaving of recordEvent calls and of the
\* flushes of the timer, the size threshold and queries, no record is
\* inserted before a record created earlier, and getLastRecord returns the
\* most recently created persisted record.
C36_StoredInCreationOrder ==
  /\ \A i, j \in 1..Len(InsertionOrder) :
       i < j => InsertionOrder[i] < InsertionOrder[j]
  /\ \A lastRecord \in StorageGetLast :
       \A id \in StoredIds : id <= lastRecord.id


\* No init() or shutdown() call is in progress.
LifecycleQuiet == initCalls = <<>> /\ reader.op # "shutdown"

\* C37 as stated: whenever no init or shutdown call is in progress, whatever
\* calls came before and however they overlapped, one flush timer runs when
\* the service is initialised and none when it is not.
C37_OneFlushTimer ==
  LifecycleQuiet => timers = IF initialized THEN 1 ELSE 0

\* A verifyIntegrity call that was given at least one id is about to read and
\* return.
RangeReturning == VerifyReturning /\ (reader.fromId # 0 \/ reader.toId # 0)

\* The places of the two ids in the insertion order (0: not in storage).
FromPlace == IndexOf(InsertionOrder, reader.fromId)

ToPlace == IndexOf(InsertionOrder, reader.toId)

\* The range is empty: an id is not in storage, or fromId was persisted after
\* toId.
EmptyRange == FromPlace = 0 \/ ToPlace = 0 \/ FromPlace > ToPlace

\* C38: verifyIntegrity(fromId, toId) checks the persisted records from
\* fromId to toId, both included, and finds a changed record among them;
\* with an id that is not in storage, or fromId persisted after toId, it
\* answers valid = true, recordsChecked = 0 and no error; given only one of
\* the two ids it verifies the full set (as far as the limit of its query).
C38_RangeVerification ==
  RangeReturning =>
    \A result \in VerifyAnswers :
      IF reader.fromId = 0 \/ reader.toId = 0
      THEN /\ result.recordsChecked = Min(Len(InsertionOrder), VERIFY_LIMIT)
           /\ result.valid <=>
                \A k \in 1..result.recordsChecked :
                  InsertionOrder[k] # tampered
      ELSE IF EmptyRange
           THEN /\ result.valid
                /\ result.recordsChecked = 0
                /\ result.error = Undefined
           ELSE /\ result.recordsChecked = ToPlace - FromPlace + 1
                /\ result.valid <=>
                     \A k \in FromPlace..ToPlace : InsertionOrder[k] # tampered
                /\ ~result.valid => result.firstInvalidId = tampered

\* C38 witness: a range whose two ids are in storage is given backwards and
\* the call is about to answer that it checked nothing.
C38_Witness ==
  /\ RangeReturning
  /\ FromPlace > ToPlace
  /\ ToPlace > 0
  /\ \E result \in VerifyAnswers : result.recordsChecked = 0

\* The number of records the verifyIntegrity call that is about to return
\* fetches: those of its range, or those of the full set as far as the limit
\* of the query.
Fetched ==
  IF reader.fromId # 0 /\ reader.toId # 0
  THEN IF EmptyRange THEN 0 ELSE ToPlace - FromPlace + 1
  ELSE Min(Len(InsertionOrder), VERIFY_LIMIT)

====
